---- MODULE Spec2Model ----
(***************************************************************************)
(* A model of the Frepi onboarding pipeline: the Telegram session map, the *)
(* onboarding agent's tools, the staging store, the analysis engine and    *)
(* the commit service, over a table-oriented store.                        *)
(*                                                                         *)
(* Conventions.  A table is a sequence of rows and a row's id is its index *)
(* (serial ids in production tables, uuid4() in staging tables: fresh and  *)
(* never reused; no code path deletes a row).  NULL / None is 0 for ids    *)
(* and numbers, "" for strings.  Money is in whole reais, a score is in    *)
(* hundredths (0.73 is 73), a share is kept as the exact fraction          *)
(* spend/total.  Timestamps (created_at, updated_at, ...) are not kept.    *)
(***************************************************************************)
EXTENDS Integers, Sequences, FiniteSets, TLC

\* ------------------------------------------------------------------ bounds
MaxChats == 2
MaxPhotos == 2
MaxCommitCalls == 2
MaxStagedProducts == 4
MaxHandled == 5
MaxToolCalls == 4
MaxParsedPhotos == 3
MaxAnalysisRuns == 3
\* the firings of heartbeat jobs a behaviour of SpecHeartbeat runs
MaxHeartbeatRuns == 3
\* the analyses a behaviour of SpecBrand runs
MaxBrandRuns == 2
\* the suppliers a behaviour of SpecMatch stages
MaxStagedSuppliers == 3
\* the calls of the order tools a behaviour of SpecOrders makes
MaxOrderCalls == 2
MaxToolRounds == 1
MaxMessages == 6
MaxCorrectionCalls == 3
\* the sessions at which the session signal reaches 1, the corrections at
\* which the correction signal reaches 1, and the operations of the
\* restaurant-facing agent a behaviour of SpecEngagement runs
MaxSessions == 10
MaxCorrections == 5
MaxEngagementOps == 3

Chats == 1..MaxChats

NULL == 0

\* --------------------------------------------------------------- the store
\* shared/supabase_client.py, class Tables
ProductionTables ==
    { "restaurants", "restaurant_people", "suppliers", "master_list",
      "supplier_mapped_products", "pricing_history",
      "restaurant_product_preferences", "preference_collection_queue",
      "engagement_profile", "preference_corrections" }

StagingTables ==
    { "onboarding_sessions", "onboarding_staging_suppliers",
      "onboarding_staging_products", "onboarding_staging_prices",
      "onboarding_staging_preferences", "onboarding_invoice_photos",
      "onboarding_analysis_insights" }

Tables == ProductionTables \cup StagingTables

EmptyDb == [t \in Tables |-> << >>]

\* client.table(t).insert(row): the new row gets the next id
Insert(d, t, row) == [d EXCEPT ![t] = Append(@, row)]

\* the id an insert into t is about to get (result.data[0]["id"])
NextId(d, t) == Len(d[t]) + 1

\* a row after update(upd): the fields of upd overwrite the row's
RECURSIVE MergeFields(_, _, _)
MergeFields(row, upd, fields) ==
    IF fields = {} THEN row
    ELSE LET f == CHOOSE g \in fields : TRUE
         IN MergeFields([row EXCEPT ![f] = upd[f]], upd, fields \ {f})

Merge(row, upd) == MergeFields(row, upd, DOMAIN row \cap DOMAIN upd)

\* client.table(t).update(upd).eq("id", id)
UpdateId(d, t, id, upd) ==
    IF id \in 1..Len(d[t])
    THEN [d EXCEPT ![t][id] = Merge(@, upd)]
    ELSE d

\* client.table(t).update(upd) on the rows `ids`
RECURSIVE UpdateIds(_, _, _, _)
UpdateIds(d, t, ids, upd) ==
    IF ids = {} THEN d
    ELSE LET id == CHOOSE i \in ids : TRUE
         IN UpdateIds(UpdateId(d, t, id, upd), t, ids \ {id}, upd)

\* the ids of the rows of t whose field f equals v: select(...).eq(f, v)
SelectEq(d, t, f, v) == {i \in 1..Len(d[t]) : d[t][i][f] = v}

\* limit(1) on a set of matching ids: the first in id order, NULL when empty
FirstOf(S) == IF S = {} THEN NULL ELSE CHOOSE i \in S : \A j \in S : i <= j

Min(a, b) == IF a <= b THEN a ELSE b

\* the sequence of the elements of a finite set of numbers, ascending
RECURSIVE Ascending(_)
Ascending(S) ==
    IF S = {} THEN << >>
    ELSE LET m == CHOOSE i \in S : \A j \in S : i <= j
         IN << m >> \o Ascending(S \ {m})

\* every order the store may return the rows `ids` in under
\* order(col, desc=True): descending in key, rows with equal keys in any
\* order (SQL leaves the order of peers unspecified)
RECURSIVE OrderingsDesc(_, _)
OrderingsDesc(ids, key) ==
    IF ids = {} THEN { << >> }
    ELSE UNION { { << i >> \o s : s \in OrderingsDesc(ids \ { i }, key) } :
                   i \in { i \in ids : \A j \in ids : key[i] >= key[j] } }

\* ------------------------------------------------------------------ models
\* models.py, SessionPhase: the phases in their declared order
PhaseOrder ==
    << "basic_info", "invoices_upload", "invoices_processing",
       "products_collected", "confirm_products", "preferences", "analysis",
       "analysis_complete", "engagement_gauge", "targeted_preferences",
       "summary", "completed" >>

PhaseRank(p) == CHOOSE i \in DOMAIN PhaseOrder : PhaseOrder[i] = p

\* the value of a score column that was never written (None)
NoScore == -1

\* the company names of the model, each with the words of its lower-cased
\* form: ilike and lower() compare these
LowerWords(name) ==
    CASE name = "Marfrig" -> << "marfrig" >>
      [] name = "MARFRIG" -> << "marfrig" >>
      [] name = "Marfrig SA" -> << "marfrig", "sa" >>
      [] name = "Friboi" -> << "friboi" >>
      [] name = "Atacadao" -> << "atacadao" >>
      [] OTHER -> << name >>

\* ilike("%part%"): part occurs in full, ignoring case
ILikeContains(full, part) ==
    LET f == LowerWords(full)
        p == LowerWords(part)
    IN \E k \in 0..(Len(f) - Len(p)) :
           \A i \in 1..Len(p) : f[k + i] = p[i]

\* ---------------------------------------------------------- staging service
\* OnboardingStagingService.create_session
create_session(d, chat) ==
    Insert(d, "onboarding_sessions",
           [telegram_chat_id |-> chat,
            status |-> "in_progress",
            current_phase |-> "basic_info",
            restaurant_name |-> "",
            engagement_choice |-> NULL,
            analysis_completed |-> FALSE,
            committed_restaurant_id |-> NULL,
            committed_person_id |-> NULL])

\* a lookup that finds no active session whatever the table holds
get_active_session_blind(d, chat) == NULL

\* OnboardingStagingService.get_active_session
get_active_session(d, chat) ==
    FirstOf({ i \in SelectEq(d, "onboarding_sessions", "telegram_chat_id", chat) :
                d["onboarding_sessions"][i].status = "in_progress" })

\* OnboardingStagingService.get_or_create_session: the store after the call
\* and the id returned (update_session_activity writes timestamps only)
get_or_create_session(d, chat) ==
    LET Result(sid) ==
          IF sid # NULL
          THEN [db |-> d, id |-> sid]
          ELSE [db |-> create_session(d, chat),
                id |-> NextId(d, "onboarding_sessions")]
    IN Result(get_active_session(d, chat))

\* OnboardingStagingService.update_session_phase
update_session_phase(d, sid, phase) ==
    UpdateId(d, "onboarding_sessions", sid, [current_phase |-> phase])

\* OnboardingStagingService.save_restaurant_basic_info
save_restaurant_basic_info(d, sid, name) ==
    UpdateId(d, "onboarding_sessions", sid,
             [restaurant_name |-> name, current_phase |-> "invoices_upload"])

\* a lookup that tries the name before the tax id
find_existing_supplier_by_name_first(d, company_name, cnpj) ==
    LET byTax == IF cnpj = "" THEN {}
                 ELSE SelectEq(d, "suppliers", "tax_number", cnpj)
        byName == { i \in 1..Len(d["suppliers"]) :
                      ILikeContains(d["suppliers"][i].company_name, company_name) }
    IN IF byName # {} THEN << FirstOf(byName), 85 >>
       ELSE IF byTax # {} THEN << FirstOf(byTax), 100 >>
       ELSE << NULL, NULL >>

\* OnboardingStagingService._find_existing_supplier: <<id, confidence>>
find_existing_supplier(d, company_name, cnpj) ==
    LET byTax == IF cnpj = "" THEN {}
                 ELSE SelectEq(d, "suppliers", "tax_number", cnpj)
        byName == { i \in 1..Len(d["suppliers"]) :
                      ILikeContains(d["suppliers"][i].company_name, company_name) }
    IN IF byTax # {} THEN << FirstOf(byTax), 100 >>
       ELSE IF byName # {} THEN << FirstOf(byName), 85 >>
       ELSE << NULL, NULL >>

\* OnboardingStagingService.stage_supplier
stage_supplier(d, sid, company_name, cnpj) ==
    LET Row(m) == [session_id |-> sid,
                   company_name |-> company_name,
                   cnpj |-> cnpj,
                   matched_supplier_id |-> m[1],
                   match_confidence |-> m[2],
                   total_spend |-> 0,
                   invoice_count |-> 0,
                   committed_supplier_id |-> NULL]
    IN Insert(d, "onboarding_staging_suppliers",
              Row(find_existing_supplier(d, company_name, cnpj)))

\* OnboardingStagingService.get_staged_suppliers: order("created_at")
get_staged_suppliers(d, sid) ==
    Ascending(SelectEq(d, "onboarding_staging_suppliers", "session_id", sid))

\* OnboardingStagingService.update_staged_supplier
update_staged_supplier(d, id, upd) ==
    UpdateId(d, "onboarding_staging_suppliers", id, upd)

\* OnboardingStagingService.stage_product (StagedProduct.to_dict defaults)
stage_product(d, sid, product_name, supplier_id) ==
    Insert(d, "onboarding_staging_products",
           [session_id |-> sid,
            staging_supplier_id |-> supplier_id,
            product_name |-> product_name,
            brand |-> "",
            matched_master_list_id |-> NULL,
            embedding_generated |-> FALSE,
            embedding_vector |-> FALSE,
            is_priority |-> FALSE,
            priority_rank |-> NULL,
            purchase_frequency |-> 0,
            total_spend |-> 0,
            avg_unit_price |-> NULL,
            spend_share_percentage |-> NULL,
            inferred_importance_score |-> NoScore,
            inferred_category |-> "",
            importance_tier |-> "",
            committed_master_list_id |-> NULL])

\* the sort key of order("inferred_importance_score", desc=True): Postgres
\* puts NULL first in a descending order
ScoreKey(d, id) ==
    LET sc == d["onboarding_staging_products"][id].inferred_importance_score
    IN IF sc = NoScore THEN 1000 ELSE sc

\* OnboardingStagingService.get_staged_products(only_priority=False): the
\* orders in which the store may return the session's products
get_staged_products(d, sid) ==
    OrderingsDesc(SelectEq(d, "onboarding_staging_products", "session_id", sid),
                  [i \in DOMAIN d["onboarding_staging_products"] |->
                     ScoreKey(d, i)])

\* OnboardingStagingService.update_staged_product
update_staged_product(d, id, upd) ==
    UpdateId(d, "onboarding_staging_products", id, upd)

\* OnboardingStagingService.set_priority_products
RECURSIVE SetRanks(_, _, _)
SetRanks(d, ids, rank) ==
    IF ids = << >> \/ rank > 10 \/ DOMAIN d = {} THEN d
    ELSE SetRanks(update_staged_product(d, Head(ids),
                      [is_priority |-> TRUE, priority_rank |-> rank]),
                  Tail(ids), rank + 1)

\* the ranks set without the earlier flags being cleared
set_priority_keeping_flags(d, sid, product_ids) == SetRanks(d, product_ids, 1)

set_priority_products(d, sid, product_ids) ==
    LET cleared ==
          [d EXCEPT !["onboarding_staging_products"] =
             [i \in DOMAIN @ |->
                IF @[i].session_id = sid
                THEN Merge(@[i], [is_priority |-> FALSE, priority_rank |-> NULL])
                ELSE @[i]]]
    IN SetRanks(cleared, product_ids, 1)

\* OnboardingStagingService.stage_price (StagedPrice.to_dict)
stage_price(d, sid, price) ==
    Insert(d, "onboarding_staging_prices",
           [session_id |-> sid,
            staging_product_id |-> price.staging_product_id,
            staging_supplier_id |-> price.staging_supplier_id,
            unit_price |-> price.unit_price,
            quantity_purchased |-> price.quantity_purchased,
            total_line_amount |-> price.total_line_amount,
            invoice_date |-> price.invoice_date,
            invoice_number |-> price.invoice_number])

\* OnboardingStagingService.get_staged_prices
get_staged_prices(d, sid) ==
    Ascending(SelectEq(d, "onboarding_staging_prices", "session_id", sid))

\* a stage_preference that writes the preference to the production table
stage_preference_in_production(d, sid, pref) ==
    Insert(d, "restaurant_product_preferences",
           [restaurant_id |-> NULL,
            master_list_id |-> pref.staging_product_id,
            is_active |-> TRUE,
            brand_preferences |-> "", price_preference |-> "",
            quality_preference |-> "", specification_preferences |-> ""])

\* OnboardingStagingService.stage_preference (StagedPreference.to_dict)
stage_preference(d, sid, pref) ==
    Insert(d, "onboarding_staging_preferences",
           [session_id |-> sid,
            staging_product_id |-> pref.staging_product_id,
            preference_type |-> pref.preference_type,
            preference_value |-> pref.preference_value,
            source |-> pref.source])

\* OnboardingStagingService.get_staged_preferences
get_staged_preferences(d, sid) ==
    Ascending(SelectEq(d, "onboarding_staging_preferences", "session_id", sid))

\* OnboardingStagingService.save_photo_metadata
save_photo_metadata(d, sid, url, photo_index) ==
    Insert(d, "onboarding_invoice_photos",
           [session_id |-> sid,
            telegram_file_url |-> url,
            photo_index |-> photo_index,
            parsing_success |-> NULL])

\* OnboardingStagingService.get_invoice_photos
get_invoice_photos(d, sid) ==
    Ascending(SelectEq(d, "onboarding_invoice_photos", "session_id", sid))

\* OnboardingStagingService._row_to_staged_supplier
row_to_staged_supplier(d, id) ==
    LET r == d["onboarding_staging_suppliers"][id]
    IN [id |-> id,
        company_name |-> r.company_name,
        cnpj |-> r.cnpj,
        matched_supplier_id |-> r.matched_supplier_id,
        total_spend |-> r.total_spend,
        committed_supplier_id |-> r.committed_supplier_id]

\* OnboardingStagingService._row_to_staged_product: importance_tier and
\* embedding_vector are not among the columns it reads, so the object keeps
\* the dataclass defaults for them
row_to_staged_product(d, id) ==
    LET r == d["onboarding_staging_products"][id]
    IN [id |-> id,
        staging_supplier_id |-> r.staging_supplier_id,
        product_name |-> r.product_name,
        brand |-> r.brand,
        matched_master_list_id |-> r.matched_master_list_id,
        embedding_generated |-> r.embedding_generated,
        embedding_vector |-> FALSE,
        is_priority |-> r.is_priority,
        priority_rank |-> r.priority_rank,
        purchase_frequency |-> r.purchase_frequency,
        total_spend |-> r.total_spend,
        avg_unit_price |-> r.avg_unit_price,
        spend_share_percentage |-> r.spend_share_percentage,
        inferred_importance_score |-> r.inferred_importance_score,
        inferred_category |-> r.inferred_category,
        importance_tier |-> "",
        committed_master_list_id |-> r.committed_master_list_id]

\* OnboardingStagingService._row_to_staged_price: invoice_date is not among
\* the columns it reads
row_to_staged_price(d, id) ==
    LET r == d["onboarding_staging_prices"][id]
    IN [id |-> id,
        staging_product_id |-> r.staging_product_id,
        staging_supplier_id |-> r.staging_supplier_id,
        unit_price |-> r.unit_price,
        quantity_purchased |-> r.quantity_purchased,
        total_line_amount |-> r.total_line_amount,
        invoice_date |-> "",
        invoice_number |-> r.invoice_number]

\* OnboardingStagingService._row_to_staged_preference
row_to_staged_preference(d, id) ==
    LET r == d["onboarding_staging_preferences"][id]
    IN [id |-> id,
        staging_product_id |-> r.staging_product_id,
        preference_type |-> r.preference_type,
        preference_value |-> r.preference_value,
        source |-> r.source]

\* the objects built from a list of row ids
staged_supplier_rows(d, ids) == [k \in DOMAIN ids |-> row_to_staged_supplier(d, ids[k])]
staged_product_rows(d, ids) == [k \in DOMAIN ids |-> row_to_staged_product(d, ids[k])]
staged_price_rows(d, ids) == [k \in DOMAIN ids |-> row_to_staged_price(d, ids[k])]
staged_preference_rows(d, ids) == [k \in DOMAIN ids |-> row_to_staged_preference(d, ids[k])]

\* dict.get(key) on a mapping kept as a function
MapGet(m, k) == IF k \in DOMAIN m THEN m[k] ELSE NULL

\* a score that may be None, read as `score or 0`
OrZero(x) == IF x = NoScore THEN 0 ELSE x

\* ----------------------------------------------------------- commit service
\* OnboardingCommitService._commit_restaurant
commit_restaurant(d, session, session_id) ==
    Insert(d, "restaurants",
           [restaurant_name |-> session.restaurant_name,
            onboarding_completed_at |-> TRUE,
            onboarding_session_id |-> session_id,
            ordering_frequency |-> << >>,
            is_active |-> TRUE])

\* OnboardingCommitService._commit_restaurant_person
commit_restaurant_person(d, restaurant_id, telegram_chat_id) ==
    Insert(d, "restaurant_people",
           [restaurant_id |-> restaurant_id,
            first_name |-> "Contato",
            full_name |-> "Contato Principal",
            whatsapp_number |-> ToString(telegram_chat_id),
            is_active |-> TRUE])

\* OnboardingCommitService._commit_suppliers: the store and the mapping
\* staging id -> production id after the loop over staged_suppliers
RECURSIVE commit_suppliers(_, _, _)
commit_suppliers(d, staged_suppliers, mapping) ==
    IF staged_suppliers = << >> THEN [db |-> d, mapping |-> mapping]
    ELSE LET staged == Head(staged_suppliers)
             production_id == NextId(d, "suppliers")
         IN IF staged.matched_supplier_id # NULL
            THEN commit_suppliers(d, Tail(staged_suppliers),
                     (staged.id :> staged.matched_supplier_id) @@ mapping)
            ELSE commit_suppliers(
                     update_staged_supplier(
                         Insert(d, "suppliers",
                                [company_name |-> staged.company_name,
                                 tax_number |-> staged.cnpj,
                                 whatsapp_number |-> "",
                                 is_active |-> TRUE]),
                         staged.id, [committed_supplier_id |-> production_id]),
                     Tail(staged_suppliers),
                     (staged.id :> production_id) @@ mapping)

\* OnboardingCommitService._generate_product_embeddings
RECURSIVE generate_product_embeddings(_, _)
generate_product_embeddings(d, staged_products) ==
    IF staged_products = << >> THEN d
    ELSE LET p == Head(staged_products)
             rest == generate_product_embeddings(d, Tail(staged_products))
         IN IF ~p.embedding_generated /\ p.matched_master_list_id = NULL
            THEN update_staged_product(rest, p.id,
                     [embedding_vector |-> TRUE, embedding_generated |-> TRUE])
            ELSE rest

\* the embedding _commit_products attaches to a new catalog row: looked up
\* in a refreshed product list, and only when the object it holds says an
\* embedding was generated
EmbeddingToCommit(d, staged) ==
    /\ staged.embedding_generated
    /\ row_to_staged_product(d, staged.id).embedding_vector

\* OnboardingCommitService._commit_products
RECURSIVE commit_products(_, _, _, _)
commit_products(d, staged_products, restaurant_id, mapping) ==
    IF staged_products = << >> THEN [db |-> d, mapping |-> mapping]
    ELSE LET staged == Head(staged_products)
             production_id == NextId(d, "master_list")
         IN IF staged.matched_master_list_id # NULL
            THEN commit_products(d, Tail(staged_products), restaurant_id,
                     (staged.id :> staged.matched_master_list_id) @@ mapping)
            ELSE commit_products(
                     update_staged_product(
                         Insert(d, "master_list",
                                [restaurant_id |-> restaurant_id,
                                 product_name |-> staged.product_name,
                                 brand |-> staged.brand,
                                 popularity_score |->
                                     OrZero(staged.inferred_importance_score),
                                 embedding_vector_v2 |->
                                     EmbeddingToCommit(d, staged)]),
                         staged.id, [committed_master_list_id |-> production_id]),
                     Tail(staged_products), restaurant_id,
                     (staged.id :> production_id) @@ mapping)

\* select("id").eq("supplier_id", s).eq("master_list_id", m).limit(1)
FindMapping(d, supplier_id, master_list_id) ==
    FirstOf({ i \in SelectEq(d, "supplier_mapped_products", "supplier_id", supplier_id) :
                d["supplier_mapped_products"][i].master_list_id = master_list_id })

\* OnboardingCommitService._commit_supplier_mappings
RECURSIVE commit_supplier_mappings(_, _, _, _)
commit_supplier_mappings(d, staged_products, supplier_mapping, product_mapping) ==
    IF staged_products = << >> THEN d
    ELSE LET staged == Head(staged_products)
             supplier_id == MapGet(supplier_mapping, staged.staging_supplier_id)
             master_list_id == MapGet(product_mapping, staged.id)
             d2 == IF /\ staged.staging_supplier_id # NULL
                      /\ supplier_id # NULL
                      /\ master_list_id # NULL
                      /\ FindMapping(d, supplier_id, master_list_id) = NULL
                   THEN Insert(d, "supplier_mapped_products",
                               [supplier_id |-> supplier_id,
                                master_list_id |-> master_list_id,
                                supplier_product_name |-> staged.product_name,
                                current_unit_price |-> staged.avg_unit_price])
                   ELSE d
         IN commit_supplier_mappings(d2, Tail(staged_products),
                                     supplier_mapping, product_mapping)

\* OnboardingCommitService._commit_prices: the store and the number committed
RECURSIVE commit_prices(_, _, _, _, _)
commit_prices(d, staged_prices, supplier_mapping, product_mapping, committed) ==
    IF staged_prices = << >> THEN [db |-> d, committed |-> committed]
    ELSE LET staged == Head(staged_prices)
             supplier_id == MapGet(supplier_mapping, staged.staging_supplier_id)
             master_list_id == MapGet(product_mapping, staged.staging_product_id)
             smp_id == FindMapping(d, supplier_id, master_list_id)
             skip == \/ staged.staging_supplier_id = NULL
                     \/ staged.staging_product_id = NULL
                     \/ supplier_id = NULL
                     \/ master_list_id = NULL
             d2 == Insert(d, "pricing_history",
                          [supplier_id |-> supplier_id,
                           master_list_id |-> master_list_id,
                           supplier_mapped_product_id |-> smp_id,
                           unit_price |-> staged.unit_price,
                           effective_date |->
                               IF staged.invoice_date # ""
                               THEN staged.invoice_date ELSE "today"])
             d3 == UpdateId(d2, "supplier_mapped_products", smp_id,
                            [current_unit_price |-> staged.unit_price])
         IN IF skip
            THEN commit_prices(d, Tail(staged_prices), supplier_mapping,
                               product_mapping, committed)
            ELSE commit_prices(d3, Tail(staged_prices), supplier_mapping,
                               product_mapping, committed + 1)

\* the ids of the products the staged preferences name, in the order of
\* their first appearance (the key order of the prefs_by_product dict)
RECURSIVE ProductKeys(_, _)
ProductKeys(staged_preferences, seen) ==
    IF staged_preferences = << >> THEN seen
    ELSE LET k == Head(staged_preferences).staging_product_id
         IN ProductKeys(Tail(staged_preferences),
                IF k = NULL \/ \E i \in DOMAIN seen : seen[i] = k
                THEN seen ELSE Append(seen, k))

\* the columns one product's preferences put into pref_data, later ones
\* overwriting earlier ones of the same type
RECURSIVE PrefData(_, _)
PrefData(prefs, pref_data) ==
    IF prefs = << >> THEN pref_data
    ELSE LET pref == Head(prefs)
             cols ==
               CASE pref.preference_type = "brand" ->
                      [brand_preferences |-> pref.preference_value.text]
                 [] pref.preference_type = "price_max" ->
                      [price_preference |->
                           ToString(pref.preference_value.max_price)]
                 [] pref.preference_type = "quality" ->
                      [quality_preference |-> pref.preference_value.text]
                 [] pref.preference_type = "specification" ->
                      [specification_preferences |-> pref.preference_value.text]
                 [] OTHER -> << >>
         IN PrefData(Tail(prefs), cols @@ pref_data)

\* select("id").eq("restaurant_id", r).eq("master_list_id", m).limit(1)
FindPreference(d, restaurant_id, master_list_id) ==
    FirstOf({ i \in SelectEq(d, "restaurant_product_preferences",
                             "restaurant_id", restaurant_id) :
                d["restaurant_product_preferences"][i].master_list_id
                    = master_list_id })

\* the columns of a preference row an insert leaves NULL
PreferenceDefaults ==
    [brand_preferences |-> "", price_preference |-> "",
     quality_preference |-> "", specification_preferences |-> ""]

\* OnboardingCommitService._commit_preferences, the product-specific part
RECURSIVE commit_product_preferences(_, _, _, _, _, _)
commit_product_preferences(d, keys, staged_preferences, restaurant_id, product_mapping, committed) ==
    LET Upsert(existing, pref_data) ==
          IF existing # NULL
          THEN UpdateId(d, "restaurant_product_preferences", existing, pref_data)
          ELSE Insert(d, "restaurant_product_preferences",
                      pref_data @@ PreferenceDefaults)
        One(staging_prod_id, master_list_id) ==
          IF master_list_id = NULL
          THEN commit_product_preferences(d, Tail(keys), staged_preferences,
                   restaurant_id, product_mapping, committed)
          ELSE commit_product_preferences(
                   Upsert(FindPreference(d, restaurant_id, master_list_id),
                          PrefData(SelectSeq(staged_preferences,
                                      LAMBDA p : p.staging_product_id
                                                     = staging_prod_id),
                                   [restaurant_id |-> restaurant_id,
                                    master_list_id |-> master_list_id,
                                    is_active |-> TRUE])),
                   Tail(keys), staged_preferences, restaurant_id,
                   product_mapping, committed + 1)
    IN IF keys = << >> THEN [db |-> d, committed |-> committed]
       ELSE One(Head(keys), MapGet(product_mapping, Head(keys)))

\* OnboardingCommitService._commit_preferences
commit_preferences(d, staged_preferences, restaurant_id, product_mapping) ==
    LET Global(r, delivery_prefs) ==
          [db |-> IF delivery_prefs # << >>
                  THEN UpdateId(r.db, "restaurants", restaurant_id,
                           [ordering_frequency |->
                                [k \in DOMAIN delivery_prefs |->
                                   delivery_prefs[k].preference_value.text]])
                  ELSE r.db,
           committed |-> r.committed]
    IN Global(commit_product_preferences(d,
                  ProductKeys(staged_preferences, << >>),
                  staged_preferences, restaurant_id, product_mapping, 0),
              SelectSeq(staged_preferences,
                  LAMBDA p : /\ p.staging_product_id = NULL
                             /\ p.preference_type = "delivery_day"))

\* sorted(items, key=..., reverse=True) with keys[i] the key of items[i]:
\* descending, and stable, so items with equal keys keep the order they had
RECURSIVE SortedDesc(_, _)
SortedDesc(items, keys) ==
    IF items = << >> THEN << >>
    ELSE LET best == CHOOSE i \in DOMAIN items :
                       /\ \A j \in DOMAIN items : keys[i] >= keys[j]
                       /\ \A j \in 1..(i - 1) : keys[j] < keys[i]
             Drop(q) == [k \in 1..(Len(q) - 1) |->
                           IF k < best THEN q[k] ELSE q[k + 1]]
         IN << items[best] >> \o SortedDesc(Drop(items), Drop(keys))

\* OnboardingCommitService._populate_preference_queue; the lists of the
\* preference types collected and pending and the count of askings are left
\* to the table by the insert: the lists are read as lists, empty while
\* nothing has been recorded, and the count has 1 added to it, from 0
RECURSIVE QueueEntries(_, _, _, _)
QueueEntries(sorted_products, position, restaurant_id, product_mapping) ==
    IF sorted_products = << >> THEN << >>
    ELSE LET staged == Head(sorted_products)
             master_list_id == MapGet(product_mapping, staged.id)
             rest == QueueEntries(Tail(sorted_products), position + 1,
                                  restaurant_id, product_mapping)
         IN IF master_list_id = NULL THEN rest
            ELSE << [restaurant_id |-> restaurant_id,
                     master_list_id |-> master_list_id,
                     importance_tier |->
                         IF staged.importance_tier # ""
                         THEN staged.importance_tier ELSE "long_tail",
                     importance_score |->
                         OrZero(staged.inferred_importance_score),
                     total_spend |-> staged.total_spend,
                     spend_share_pct |-> staged.spend_share_percentage,
                     preference_status |-> "pending",
                     queue_position |-> position,
                     preferences_collected |-> << >>,
                     preferences_pending |-> << >>,
                     asked_count |-> 0] >> \o rest

populate_preference_queue(d, staged_products, restaurant_id, product_mapping) ==
    LET keys == [k \in DOMAIN staged_products |->
                   OrZero(staged_products[k].inferred_importance_score)]
        queue_entries == QueueEntries(SortedDesc(staged_products, keys), 1,
                                      restaurant_id, product_mapping)
    IN [d EXCEPT !["preference_collection_queue"] = @ \o queue_entries]

\* OnboardingCommitService._create_engagement_profile: depth_map, the
\* depth signal (in hundredths) and round(0.15 * signal, 2) (in hundredths;
\* 0.15 * 0.5 is just below 0.075 in binary floating point and rounds to 0.07)
\* the counters of the row are left to the table by the insert: every reader
\* adds 1 to them, so they start at 0
OnboardingDepth(engagement_choice) ==
    CASE engagement_choice = 1 -> 5
      [] engagement_choice = 2 -> 10
      [] OTHER -> 0

InitialScore(onboarding_depth) ==
    CASE onboarding_depth = 5 -> 7
      [] onboarding_depth = 10 -> 15
      [] OTHER -> 0

create_engagement_profile(d, session_id, restaurant_id) ==
    LET engagement_choice == d["onboarding_sessions"][session_id].engagement_choice
        onboarding_depth == OnboardingDepth(engagement_choice)
        initial_score == InitialScore(onboarding_depth)
    IN Insert(d, "engagement_profile",
              [restaurant_id |-> restaurant_id,
               engagement_score |-> initial_score,
               engagement_level |->
                   IF initial_score >= 65 THEN "high"
                   ELSE IF initial_score >= 35 THEN "medium" ELSE "low",
               onboarding_depth |-> onboarding_depth,
               drip_questions_per_session |->
                   IF initial_score >= 65 THEN 2
                   ELSE IF initial_score >= 35 THEN 1 ELSE 0,
               drip_questions_answered |-> 0,
               drip_questions_skipped |-> 0,
               total_corrections |-> 0,
               corrections_with_reason |-> 0,
               sessions_last_30d |-> 0])

\* OnboardingCommitService._finalize_session
finalize_session(d, session_id, restaurant_id, person_id) ==
    UpdateId(d, "onboarding_sessions", session_id,
             [status |-> "committed",
              committed_restaurant_id |-> restaurant_id,
              committed_person_id |-> person_id])

\* ------------------------------------------------------ engagement scoring
\* recalculate_engagement, "Determine level and drip rate": the level and the
\* drip questions per session of a score (in hundredths)
\* a level chain without the dormant level
EngagementLevelWithoutDormant(score) ==
    IF score >= 65 THEN "high"
    ELSE IF score >= 35 THEN "medium"
    ELSE "low"

EngagementLevel(score) ==
    IF score >= 65 THEN "high"
    ELSE IF score >= 35 THEN "medium"
    ELSE IF score >= 10 THEN "low"
    ELSE "dormant"

DripPerSession(score) ==
    IF score >= 65 THEN 2
    ELSE IF score >= 35 THEN 1
    ELSE 0

\* recalculate_engagement, the signals: every signal is a fraction, and the
\* weighted sum 0.15 depth + 0.30 drip + 0.25 corrections + 0.15 sessions
\* + 0.15 reasoning is kept exact, in hundredths, as numerator over
\* denominator 2 * total_drip * corrections (a zero count replaced by 1)
DepthTenths(depth) == IF depth \in { 5, 10 } THEN depth ELSE 0

NonZero(n) == IF n > 0 THEN n ELSE 1

ScoreDenominator(profile) ==
    2 * NonZero(profile.drip_questions_answered + profile.drip_questions_skipped)
      * NonZero(profile.total_corrections)

ScoreNumerator(profile) ==
    LET total_drip == NonZero(profile.drip_questions_answered
                                + profile.drip_questions_skipped)
        corrections == NonZero(profile.total_corrections)
    IN   3 * DepthTenths(profile.onboarding_depth) * total_drip * corrections
       + 60 * profile.drip_questions_answered * corrections
       + 10 * Min(profile.total_corrections, 5) * total_drip * corrections
       + 3 * Min(profile.sessions_last_30d, 10) * total_drip * corrections
       + (IF profile.total_corrections > 0
          THEN 30 * profile.corrections_with_reason * total_drip
          ELSE 0)

\* round(x, 2) of the binary floating point sum, in hundredths: the nearest
\* hundredth; where the exact sum lies half way between two hundredths the
\* floating point sum lies on either side of it, depending on the operands
RoundHundredths(numerator, denominator) ==
    LET q == numerator \div denominator
        r == numerator % denominator
    IN IF 2 * r < denominator THEN { q }
       ELSE IF 2 * r > denominator THEN { q + 1 }
       ELSE { q, q + 1 }

\* max(0.0, min(1.0, score))
Clamp(score) == IF score < 0 THEN 0 ELSE IF score > 100 THEN 100 ELSE score

\* the scores recalculate_engagement may compute for a profile row
EngagementScores(profile) ==
    { Clamp(score) : score \in RoundHundredths(ScoreNumerator(profile),
                                               ScoreDenominator(profile)) }

\* update(upd).eq("restaurant_id", restaurant_id) on engagement_profile
UpdateProfiles(d, restaurant_id, upd) ==
    UpdateIds(d, "engagement_profile",
              SelectEq(d, "engagement_profile", "restaurant_id", restaurant_id),
              upd)

\* select(...).eq("restaurant_id", restaurant_id).limit(1) on
\* engagement_profile
FindProfile(d, restaurant_id) ==
    FirstOf(SelectEq(d, "engagement_profile", "restaurant_id", restaurant_id))

\* recalculate_engagement: the stores it may leave
recalculate_engagement(d, restaurant_id) ==
    IF FindProfile(d, restaurant_id) = NULL THEN { d }
    ELSE { UpdateProfiles(d, restaurant_id,
               [engagement_score |-> score,
                engagement_level |-> EngagementLevel(score),
                drip_questions_per_session |-> DripPerSession(score)]) :
             score \in EngagementScores(
                           d["engagement_profile"][FindProfile(d, restaurant_id)]) }

\* increment_session_count
increment_session_count(d, restaurant_id) ==
    IF FindProfile(d, restaurant_id) = NULL THEN d
    ELSE UpdateProfiles(d, restaurant_id,
             [sessions_last_30d |->
                  d["engagement_profile"][FindProfile(d, restaurant_id)]
                      .sessions_last_30d + 1])

\* ------------------------------------------------------- preference drip
\* every order the store may return the rows `ids` in under order(col):
\* ascending in key, rows with equal keys in any order
RECURSIVE OrderingsAsc(_, _)
OrderingsAsc(ids, key) ==
    IF ids = {} THEN { << >> }
    ELSE UNION { { << i >> \o s : s \in OrderingsAsc(ids \ { i }, key) } :
                   i \in { i \in ids : \A j \in ids : key[i] <= key[j] } }

\* the queue request without its importance_tier condition
DripCandidatesAnyTier(d, restaurant_id, tier_filter, limit) ==
    LET queue == d["preference_collection_queue"]
        ids == { i \in SelectEq(d, "preference_collection_queue",
                                "restaurant_id", restaurant_id) :
                   queue[i].preference_status \in { "pending", "asked_drip" } }
    IN { SubSeq(order, 1, Min(limit, Len(order))) :
           order \in OrderingsAsc(ids, [i \in DOMAIN queue |->
                                          queue[i].queue_position]) }

\* get_drip_questions, the queue request: the rows of the restaurant that
\* are pending or asked, of a tier in tier_filter, by queue position, the
\* first `limit` of them
DripCandidates(d, restaurant_id, tier_filter, limit) ==
    LET queue == d["preference_collection_queue"]
        ids == { i \in SelectEq(d, "preference_collection_queue",
                                "restaurant_id", restaurant_id) :
                   /\ queue[i].preference_status \in { "pending", "asked_drip" }
                   /\ queue[i].importance_tier \in tier_filter }
    IN { SubSeq(order, 1, Min(limit, Len(order))) :
           order \in OrderingsAsc(ids, [i \in DOMAIN queue |->
                                          queue[i].queue_position]) }

\* get_drip_questions, the loop over the rows returned: a row whose product
\* is not in the catalog is passed over; for the others a question about
\* the first pending preference type is made and the row is marked
\* asked_drip
RECURSIVE AskItems(_, _, _)
AskItems(d, items, questions) ==
    IF items = << >> THEN [db |-> d, questions |-> questions]
    ELSE LET item == d["preference_collection_queue"][Head(items)]
             pending == IF item.preferences_pending = << >>
                        THEN << "brand", "price_max", "quality", "supplier" >>
                        ELSE item.preferences_pending
         IN IF item.master_list_id \notin DOMAIN d["master_list"]
            THEN AskItems(d, Tail(items), questions)
            ELSE AskItems(
                     UpdateId(d, "preference_collection_queue", Head(items),
                              [preference_status |-> "asked_drip",
                               asked_count |-> item.asked_count + 1]),
                     Tail(items),
                     Append(questions,
                            [queue_id |-> Head(items),
                             product_name |->
                                 d["master_list"][item.master_list_id].product_name,
                             master_list_id |-> item.master_list_id,
                             preference_type |-> pending[1],
                             queue_position |-> item.queue_position,
                             importance_tier |-> item.importance_tier]))

\* a drip that asks about head products only, whatever the level
get_drip_questions_head_only(d, restaurant_id) ==
    LET profile == d["engagement_profile"][FindProfile(d, restaurant_id)]
    IN IF FindProfile(d, restaurant_id) = NULL
       THEN { [db |-> d, questions |-> << >>] }
       ELSE IF \/ profile.drip_questions_per_session = 0
               \/ profile.engagement_level \in { "low", "dormant" }
       THEN { [db |-> d, questions |-> << >>] }
       ELSE { AskItems(d, items, << >>) :
                items \in DripCandidates(d, restaurant_id, { "head" },
                             profile.drip_questions_per_session) }

\* PreferenceDripService.get_drip_questions: every outcome [db, questions]
get_drip_questions(d, restaurant_id) ==
    LET profile == d["engagement_profile"][FindProfile(d, restaurant_id)]
    IN IF FindProfile(d, restaurant_id) = NULL
       THEN { [db |-> d, questions |-> << >>] }
       ELSE IF \/ profile.drip_questions_per_session = 0
               \/ profile.engagement_level \in { "low", "dormant" }
       THEN { [db |-> d, questions |-> << >>] }
       ELSE { AskItems(d, items, << >>) :
                items \in DripCandidates(d, restaurant_id,
                             IF profile.engagement_level = "high"
                             THEN { "head", "mid_tail" } ELSE { "head" },
                             profile.drip_questions_per_session) }

\* the preference columns a drip answer or a correction of the given type
\* writes (pref_data)
DripPrefData(preference_type, value) ==
    CASE preference_type = "brand" -> [brand_preferences |-> value]
      [] preference_type = "price_max" -> [price_preference |-> value]
      [] preference_type = "quality" -> [quality_preference |-> value]
      [] OTHER -> << >>

\* the update-or-insert of a product's preference row that
\* record_drip_response and _save_preference_correction share
UpsertPreference(d, restaurant_id, master_list_id, pref_data) ==
    IF DOMAIN pref_data = {} THEN d
    ELSE IF FindPreference(d, restaurant_id, master_list_id) # NULL
    THEN UpdateId(d, "restaurant_product_preferences",
                  FindPreference(d, restaurant_id, master_list_id), pref_data)
    ELSE Insert(d, "restaurant_product_preferences",
                Merge([restaurant_id |-> restaurant_id,
                       master_list_id |-> master_list_id,
                       is_active |-> TRUE,
                       brand_preferences |-> "", price_preference |-> "",
                       quality_preference |-> "",
                       specification_preferences |-> ""], pref_data))

\* the queue rows of a product of a restaurant
QueueItems(d, restaurant_id, master_list_id) ==
    { i \in SelectEq(d, "preference_collection_queue",
                     "restaurant_id", restaurant_id) :
        d["preference_collection_queue"][i].master_list_id = master_list_id }

\* record_drip_response, "Update queue status": the update an answer or a
\* skip applies to the product's queue rows
QueueUpdate(d, restaurant_id, master_list_id, preference_type, skipped) ==
    LET item == FirstOf(QueueItems(d, restaurant_id, master_list_id))
        Lists(row) ==
          LET collected ==
                IF \E k \in DOMAIN row.preferences_collected :
                      row.preferences_collected[k] = preference_type
                THEN row.preferences_collected
                ELSE Append(row.preferences_collected, preference_type)
              pending == SelectSeq(row.preferences_pending,
                                   LAMBDA t : t # preference_type)
          IN [preference_status |->
                  IF pending # << >> THEN "asked_drip" ELSE "collected",
              preferences_collected |-> collected,
              preferences_pending |-> pending]
    IN IF skipped THEN [preference_status |-> "skipped"]
       ELSE IF item = NULL THEN [preference_status |-> "collected"]
       ELSE Lists(d["preference_collection_queue"][item])

UpdateQueueItems(d, restaurant_id, master_list_id, upd) ==
    UpdateIds(d, "preference_collection_queue",
              QueueItems(d, restaurant_id, master_list_id), upd)

\* the counter update that adds one to both counters
CountBothDripCounters(d, restaurant_id, skipped) ==
    IF FindProfile(d, restaurant_id) = NULL THEN d
    ELSE LET p == d["engagement_profile"][FindProfile(d, restaurant_id)]
         IN UpdateProfiles(d, restaurant_id,
                [drip_questions_skipped |-> p.drip_questions_skipped + 1,
                 drip_questions_answered |-> p.drip_questions_answered + 1])

\* record_drip_response, "Update engagement profile counters"
CountDripResponse(d, restaurant_id, skipped) ==
    IF FindProfile(d, restaurant_id) = NULL THEN d
    ELSE LET p == d["engagement_profile"][FindProfile(d, restaurant_id)]
         IN UpdateProfiles(d, restaurant_id,
                IF skipped
                THEN [drip_questions_skipped |-> p.drip_questions_skipped + 1]
                ELSE [drip_questions_answered |-> p.drip_questions_answered + 1])

\* PreferenceDripService.record_drip_response: the stores it may leave
\* (value "" is no value); the store of each step is bound once
record_drip_response(d, restaurant_id, master_list_id, preference_type, value, skipped) ==
    LET Counted(queued) ==
          UNION { recalculate_engagement(counted, restaurant_id) :
                  counted \in { CountDripResponse(queued, restaurant_id,
                                                  skipped) } }
        Queued(d1) ==
          UNION { Counted(queued) :
                  queued \in { UpdateQueueItems(d1, restaurant_id,
                                   master_list_id,
                                   QueueUpdate(d1, restaurant_id,
                                               master_list_id,
                                               preference_type, skipped)) } }
    IN UNION { Queued(saved) :
               saved \in { IF ~skipped /\ value # ""
                           THEN UpsertPreference(d, restaurant_id,
                                    master_list_id,
                                    DripPrefData(preference_type, value))
                           ELSE d } }

\* ------------------------------------------------- restaurant-facing agent
\* select("id").eq("restaurant_id", r).ilike("product_name", "%name%")
\* .limit(1) on master_list; the names searched for are whole product names,
\* none contained in another, so a row matches when its name is the name
FindProduct(d, restaurant_id, product_name) ==
    FirstOf({ i \in SelectEq(d, "master_list", "restaurant_id", restaurant_id) :
                d["master_list"][i].product_name = product_name })

\* _save_preference_correction, "Update engagement profile"
CountCorrection(d, restaurant_id, reason) ==
    IF FindProfile(d, restaurant_id) = NULL THEN d
    ELSE LET p == d["engagement_profile"][FindProfile(d, restaurant_id)]
         IN UpdateProfiles(d, restaurant_id,
                IF reason # ""
                THEN [total_corrections |-> p.total_corrections + 1,
                      corrections_with_reason |-> p.corrections_with_reason + 1]
                ELSE [total_corrections |-> p.total_corrections + 1])

\* _save_preference_correction, "Update engagement profile", the select:
\* the counters it reads, none when the restaurant has no profile
ReadCorrectionCounters(d, restaurant_id) ==
    IF FindProfile(d, restaurant_id) = NULL THEN << >>
    ELSE LET p == d["engagement_profile"][FindProfile(d, restaurant_id)]
         IN << [total_corrections |-> p.total_corrections,
                corrections_with_reason |-> p.corrections_with_reason] >>

\* _save_preference_correction, "Update engagement profile", the update
\* computed from the counters `profile` that were read
WriteCorrectionCounters(d, restaurant_id, profile, reason) ==
    IF profile = << >> THEN d
    ELSE UpdateProfiles(d, restaurant_id,
             IF reason # ""
             THEN [total_corrections |-> profile[1].total_corrections + 1,
                   corrections_with_reason |->
                       profile[1].corrections_with_reason + 1]
             ELSE [total_corrections |-> profile[1].total_corrections + 1])

\* _save_preference_correction up to "Update engagement profile": the
\* correction row and the preference of the product it names
RecordCorrection(d, restaurant_id, product_name, preference_type, corrected_value, reason) ==
    LET master_list_id == IF product_name # ""
                          THEN FindProduct(d, restaurant_id, product_name)
                          ELSE NULL
        recorded == Insert(d, "preference_corrections",
                           [restaurant_id |-> restaurant_id,
                            master_list_id |-> master_list_id,
                            preference_type |-> preference_type,
                            corrected_value |-> corrected_value,
                            correction_reason |-> reason])
    IN IF master_list_id # NULL
       THEN UpsertPreference(recorded, restaurant_id, master_list_id,
                             DripPrefData(preference_type, corrected_value))
       ELSE recorded

\* FrepiAgent._save_preference_correction (product_name "" is no product,
\* reason "" is no reason, restaurant_id NULL is no restaurant linked)
save_preference_correction(d, restaurant_id, product_name, preference_type, corrected_value, reason) ==
    IF restaurant_id = NULL THEN d
    ELSE CountCorrection(RecordCorrection(d, restaurant_id, product_name,
                                          preference_type, corrected_value,
                                          reason),
                         restaurant_id, reason)

\* FrepiAgent._answer_drip_question: the stores it may leave
answer_drip_question(d, restaurant_id, product_name, preference_type, value, skip) ==
    IF restaurant_id = NULL \/ FindProduct(d, restaurant_id, product_name) = NULL
    THEN { d }
    ELSE record_drip_response(d, restaurant_id,
             FindProduct(d, restaurant_id, product_name),
             preference_type, value, skip)

\* --------------------------------------------------------- analysis service

RECURSIVE SumSeq(_)
SumSeq(q) == IF q = << >> THEN 0 ELSE Head(q) + SumSeq(Tail(q))

\* n / d rounded to the nearest integer
RoundDiv(n, d) == (2 * n + d) \div (2 * d)

\* OnboardingAnalysisService._categorize_product, on the product names of
\* the model (CATEGORY_KEYWORDS)
categorize_product(product_name) ==
    CASE product_name = "Picanha" -> "proteinas"
      [] product_name = "Frango" -> "proteinas"
      [] product_name = "Arroz" -> "mercearia"
      [] product_name = "Farinha" -> "mercearia"
      [] product_name = "Sal" -> "mercearia"
      [] OTHER -> "outros"

\* _analyze_products, the spend one price record adds to its product
LineSpend(price) ==
    IF price.total_line_amount # NULL THEN price.total_line_amount
    ELSE IF price.unit_price # NULL /\ price.quantity_purchased # NULL
         THEN price.unit_price * price.quantity_purchased
         ELSE 0

PricesOf(prices, product_id) ==
    SelectSeq(prices, LAMBDA p : p.staging_product_id = product_id)

ProductSpend(prices, product_id) ==
    LET product_prices == PricesOf(prices, product_id)
    IN SumSeq([k \in DOMAIN product_prices |-> LineSpend(product_prices[k])])

\* statistics.mean of the unit prices of a product (whole reais), 0 if none
AvgUnitPrice(prices, product_id) ==
    LET unit_prices == SelectSeq(PricesOf(prices, product_id),
                                 LAMBDA p : p.unit_price # NULL)
    IN IF unit_prices = << >> THEN 0
       ELSE SumSeq([k \in DOMAIN unit_prices |-> unit_prices[k].unit_price])
                \div Len(unit_prices)

\* the weighted sum without its three caps
ImportanceScoreUncapped(purchase_frequency, product_spend, total_spend) ==
    IF total_spend > 0
    THEN RoundDiv(3 * purchase_frequency * total_spend
                    + 40 * 5 * product_spend
                    + 30 * 10 * product_spend,
                  total_spend)
    ELSE 3 * purchase_frequency

\* _analyze_products, the importance score in hundredths:
\* round(0.3 * min(freq / 10, 1) + 0.4 * min(spend / (0.2 * total), 1)
\*       + 0.3 * min(share / 10, 1), 2) with share = spend / total * 100
ImportanceScore(purchase_frequency, product_spend, total_spend) ==
    IF total_spend > 0
    THEN RoundDiv(3 * Min(purchase_frequency, 10) * total_spend
                    + 40 * Min(5 * product_spend, total_spend)
                    + 30 * Min(10 * product_spend, total_spend),
                  total_spend)
    ELSE 3 * Min(purchase_frequency, 10)

\* _analyze_products, the update written to one product; the share is kept
\* in hundredths of a percent and is written only when there is spend
ProductUpdate(product, prices, total_spend) ==
    LET product_spend == ProductSpend(prices, product.id)
        purchase_frequency == Len(PricesOf(prices, product.id))
        base == [total_spend |-> product_spend,
                 purchase_frequency |-> purchase_frequency,
                 avg_unit_price |-> AvgUnitPrice(prices, product.id),
                 inferred_category |-> categorize_product(product.product_name),
                 inferred_importance_score |->
                     ImportanceScore(purchase_frequency, product_spend,
                                     total_spend)]
    IN IF total_spend > 0
       THEN [spend_share_percentage |->
                 (product_spend * 10000) \div total_spend] @@ base
       ELSE base

\* result.total_spend of _analyze_products
TotalSpend(products, prices) ==
    SumSeq([k \in DOMAIN products |-> ProductSpend(prices, products[k].id)])

\* _analyze_products, lines 213-283: the store after every product of the
\* fetched list has been updated
RECURSIVE UpdateProducts(_, _, _, _)
UpdateProducts(d, products, prices, total_spend) ==
    IF products = << >> \/ DOMAIN d = {} THEN d
    ELSE UpdateProducts(
             update_staged_product(d, Head(products).id,
                 ProductUpdate(Head(products), prices, total_spend)),
             Tail(products), prices, total_spend)

\* _assign_tiers, the tier for a cumulative spend
TierOf(cumulative, total_spend) ==
    IF cumulative * 100 <= 60 * total_spend THEN "head"
    ELSE IF cumulative * 100 <= 90 * total_spend THEN "mid_tail"
    ELSE "long_tail"

\* OnboardingAnalysisService._assign_tiers
RECURSIVE AssignFrom(_, _, _, _)
AssignFrom(d, sorted_products, total_spend, cumulative) ==
    IF sorted_products = << >> \/ DOMAIN d = {} THEN d
    ELSE LET product == Head(sorted_products)
             c == cumulative + product.total_spend
         IN AssignFrom(
                update_staged_product(d, product.id,
                    [importance_tier |-> TierOf(c, total_spend)]),
                Tail(sorted_products), total_spend, c)

assign_tiers(d, sorted_products, total_spend) ==
    IF sorted_products = << >> \/ total_spend <= 0 THEN d
    ELSE AssignFrom(d, sorted_products, total_spend, 0)

\* _analyze_products, the Pareto loop: how many of the sorted products it
\* takes for the cumulative spend to reach 80% of the total
RECURSIVE ParetoCount(_, _, _, _)
ParetoCount(sorted_products, total_spend, cumulative, count) ==
    IF sorted_products = << >> THEN count
    ELSE LET c == cumulative + Head(sorted_products).total_spend
         IN IF c * 10 >= total_spend * 8 THEN count + 1
            ELSE ParetoCount(Tail(sorted_products), total_spend, c, count + 1)

\* _analyze_products, the category with the largest spend: the first entry
\* of result.category_spend ("" when there is no product)
TopCategory(products) ==
    LET Cat(k) == IF products[k].inferred_category # ""
                  THEN products[k].inferred_category ELSE "outros"
        Spend(c) == SumSeq([k \in DOMAIN products |->
                              IF Cat(k) = c THEN products[k].total_spend ELSE 0])
    IN IF products = << >> THEN ""
       ELSE Cat(CHOOSE k \in DOMAIN products :
                  /\ \A j \in DOMAIN products : Spend(Cat(k)) >= Spend(Cat(j))
                  /\ \A j \in 1..(k - 1) : Spend(Cat(j)) < Spend(Cat(k)))

\* the first n elements of a sequence: q[:n]
Take(q, n) == [k \in 1..Min(n, Len(q)) |-> q[k]]

\* OnboardingAnalysisService._analyze_products: `products` is the list
\* run_full_analysis fetched, `refreshed` the order in which the store
\* returns the products after the update
analyze_products(s, session_id, products, prices, refreshed) ==
    LET Summary(d1, total_spend, fresh, sorted_products, pareto_count) ==
          [db |-> assign_tiers(
                      set_priority_products(d1, session_id,
                          [k \in DOMAIN Take(sorted_products, 10) |->
                             sorted_products[k].id]),
                      sorted_products, total_spend),
           result |-> [s.result EXCEPT
               !.total_spend = total_spend,
               !.top_products = Take(sorted_products, 10),
               !.top_category = TopCategory(fresh),
               !.pareto_product_count = pareto_count,
               !.pareto_percentage =
                   IF fresh = << >> THEN 0
                   ELSE (pareto_count * 100) \div Len(fresh)]]
        Sorted(d1, total_spend, fresh, sorted_products) ==
          Summary(d1, total_spend, fresh, sorted_products,
                  ParetoCount(sorted_products, total_spend, 0, 0))
        Refreshed(d1, total_spend, fresh) ==
          Sorted(d1, total_spend, fresh,
                 SortedDesc(fresh,
                     [k \in DOMAIN fresh |->
                        OrZero(fresh[k].inferred_importance_score)]))
        Updated(d1, total_spend) ==
          Refreshed(d1, total_spend, staged_product_rows(d1, refreshed))
        Totalled(total_spend) ==
          Updated(UpdateProducts(s.db, products, prices, total_spend),
                  total_spend)
    IN Totalled(TotalSpend(products, prices))

\* the distinct values of a sequence in the order of their first appearance
\* (the key order of a dict filled while walking the sequence)
RECURSIVE Distinct(_, _)
Distinct(q, seen) ==
    IF q = << >> THEN seen
    ELSE Distinct(Tail(q),
             IF \E i \in DOMAIN seen : seen[i] = Head(q)
             THEN seen ELSE Append(seen, Head(q)))

\* _analyze_suppliers: the keys of supplier_metrics, filled from the
\* products and then from the prices
MetricKeys(products, prices) ==
    Distinct(SelectSeq([k \in DOMAIN products |-> products[k].staging_supplier_id]
                         \o [k \in DOMAIN prices |-> prices[k].staging_supplier_id],
                       LAMBDA x : x # NULL),
             << >>)

\* _analyze_suppliers: metrics["spend"] of a supplier, summed over the
\* product objects the caller passed in
SupplierSpend(products, supplier_id) ==
    SumSeq([k \in DOMAIN products |->
              IF products[k].staging_supplier_id = supplier_id
              THEN products[k].total_spend ELSE 0])

\* _analyze_suppliers: metrics["categories"] of a supplier
SupplierCategories(products, supplier_id) ==
    { products[k].inferred_category : k \in
        { j \in DOMAIN products :
            /\ products[j].staging_supplier_id = supplier_id
            /\ products[j].inferred_category # "" } }

\* _analyze_suppliers: the update loop
RECURSIVE UpdateSuppliers(_, _, _, _, _)
UpdateSuppliers(d, keys, suppliers, products, prices) ==
    IF keys = << >> \/ DOMAIN d = {} THEN d
    ELSE LET supplier_id == Head(keys)
             known == \E k \in DOMAIN suppliers : suppliers[k].id = supplier_id
             numbers == { prices[k].invoice_number : k \in
                            { j \in DOMAIN prices :
                                prices[j].staging_supplier_id = supplier_id } }
             d2 == IF known
                   THEN update_staged_supplier(d, supplier_id,
                            [total_spend |-> SupplierSpend(products, supplier_id),
                             invoice_count |-> Cardinality(numbers)])
                   ELSE d
         IN UpdateSuppliers(d2, Tail(keys), suppliers, products, prices)

\* _analyze_suppliers: result.supplier_rankings; within a category the
\* suppliers are sorted by spend, largest first, and on equal spend stay in
\* the order of supplier_metrics (sorted is stable)
SupplierRankings(suppliers, products, prices) ==
    LET InCat(keys, c) ==
          { k \in DOMAIN keys : c \in SupplierCategories(products, keys[k]) }
        Ahead(keys, c, k) ==
          { j \in InCat(keys, c) :
              \/ SupplierSpend(products, keys[j])
                     > SupplierSpend(products, keys[k])
              \/ /\ SupplierSpend(products, keys[j])
                        = SupplierSpend(products, keys[k])
                 /\ j < k }
        Ranking(keys, c, k) ==
          [supplier_id |-> keys[k], category |-> c,
           total_spend |-> SupplierSpend(products, keys[k]),
           rank |-> Cardinality(Ahead(keys, c, k)) + 1]
        Rankings(keys) ==
          UNION { { Ranking(keys, c, k) :
                      c \in SupplierCategories(products, keys[k]) } :
                  k \in DOMAIN keys }
    IN Rankings(SelectSeq(MetricKeys(products, prices),
                    LAMBDA id : \E k \in DOMAIN suppliers : suppliers[k].id = id))

\* the rankings with rank 1, one per category
TopRankings(suppliers, products, prices) ==
    { r \in SupplierRankings(suppliers, products, prices) : r.rank = 1 }

\* _generate_insights, top_suppliers[0]: the rank-1 ranking of the category
\* that comes first in category_suppliers, which is whichever category the
\* set of the first supplier's categories yields first
TopCandidates(suppliers, products, prices) ==
    LET keys == SelectSeq(MetricKeys(products, prices),
                    LAMBDA id : /\ \E k \in DOMAIN suppliers : suppliers[k].id = id
                                /\ SupplierCategories(products, id) # {})
    IN IF keys = << >> THEN {}
       ELSE { r \in TopRankings(suppliers, products, prices) :
                r.category \in SupplierCategories(products, Head(keys)) }

\* OnboardingAnalysisService._analyze_suppliers
analyze_suppliers(s, suppliers, products, prices) ==
    [db |-> UpdateSuppliers(s.db, MetricKeys(products, prices), suppliers,
                            products, prices),
     result |-> [s.result EXCEPT
         !.supplier_rankings = SupplierRankings(suppliers, products, prices)]]

\* _analyze_prices: the unit prices recorded for a product
UnitPrices(prices, product_id) ==
    LET q == SelectSeq(PricesOf(prices, product_id), LAMBDA p : p.unit_price # NULL)
    IN [k \in DOMAIN q |-> q[k].unit_price]

SeqMax(q) == CHOOSE x \in {q[k] : k \in DOMAIN q} : \A k \in DOMAIN q : x >= q[k]
SeqMin(q) == CHOOSE x \in {q[k] : k \in DOMAIN q} : \A k \in DOMAIN q : x <= q[k]

\* _analyze_prices: (max - min) / avg * 100 > pct, without the division
VarianceAbove(unit_prices, pct) ==
    LET total == SumSeq(unit_prices)
    IN /\ total > 0
       /\ (SeqMax(unit_prices) - SeqMin(unit_prices)) * 100 * Len(unit_prices)
              > pct * total

\* _analyze_prices: the suggested maximum price, in whole reais
SuggestedMax(unit_prices) ==
    IF VarianceAbove(unit_prices, 20)
    THEN (SumSeq(unit_prices) * 12) \div (Len(unit_prices) * 10)
    ELSE (SeqMax(unit_prices) * 11) \div 10

\* OnboardingAnalysisService._analyze_prices
RECURSIVE StagePricePreferences(_, _, _, _, _)
StagePricePreferences(d, session_id, keys, products, prices) ==
    IF keys = << >> \/ DOMAIN d = {} THEN d
    ELSE LET product_id == Head(keys)
             known == \E k \in DOMAIN products : products[k].id = product_id
             unit_prices == UnitPrices(prices, product_id)
             d2 == IF known /\ unit_prices # << >>
                   THEN stage_preference(d, session_id,
                            [staging_product_id |-> product_id,
                             preference_type |-> "price_max",
                             preference_value |->
                                 [max_price |-> SuggestedMax(unit_prices),
                                  text |-> ""],
                             source |-> "inferred"])
                   ELSE d
         IN StagePricePreferences(d2, session_id, Tail(keys), products, prices)

PricedProducts(products, prices) ==
    SelectSeq(Distinct(SelectSeq([k \in DOMAIN prices |->
                                    prices[k].staging_product_id],
                                 LAMBDA x : x # NULL), << >>),
              LAMBDA id : /\ \E k \in DOMAIN products : products[k].id = id
                          /\ UnitPrices(prices, id) # << >>)

analyze_prices(s, session_id, products, prices) ==
    LET Ranges(keys) ==
          [db |-> StagePricePreferences(s.db, session_id, keys, products, prices),
           result |-> [s.result EXCEPT
               !.price_ranges =
                   [k \in DOMAIN keys |->
                      [product_id |-> keys[k],
                       high_variance |->
                           VarianceAbove(UnitPrices(prices, keys[k]), 15)]]]]
    IN Ranges(PricedProducts(products, prices))

\* the weekday of the invoice dates of the model (DIAS_SEMANA)
DayOfWeek(invoice_date) ==
    CASE invoice_date = "2024-01-15" -> "segunda"
      [] invoice_date = "2024-01-16" -> "terca"
      [] invoice_date = "2024-01-17" -> "quarta"
      [] OTHER -> "domingo"

\* _analyze_patterns: the categories, in the order category_days meets
\* them, that have a weekday with more than one dated price record
PatternCategories(products, prices) ==
    LET CatOf(price) ==
          IF \E k \in DOMAIN products : products[k].id = price.staging_product_id
          THEN products[CHOOSE k \in DOMAIN products :
                          products[k].id = price.staging_product_id].inferred_category
          ELSE ""
        dated == SelectSeq(prices, LAMBDA p : p.invoice_date # "" /\ CatOf(p) # "")
        Count(c, day) == Cardinality({ k \in DOMAIN dated :
                                         /\ CatOf(dated[k]) = c
                                         /\ DayOfWeek(dated[k].invoice_date) = day })
    IN SelectSeq(Distinct([k \in DOMAIN dated |-> CatOf(dated[k])], << >>),
                 LAMBDA c : \E k \in DOMAIN dated :
                               Count(c, DayOfWeek(dated[k].invoice_date)) > 1)

RECURSIVE StageDeliveryPreferences(_, _, _)
StageDeliveryPreferences(d, session_id, categories) ==
    IF categories = << >> \/ DOMAIN d = {} THEN d
    ELSE StageDeliveryPreferences(
             stage_preference(d, session_id,
                 [staging_product_id |-> NULL,
                  preference_type |-> "delivery_day",
                  preference_value |-> [max_price |-> NULL,
                                        text |-> Head(categories)],
                  source |-> "inferred"]),
             session_id, Tail(categories))

\* OnboardingAnalysisService._analyze_patterns
analyze_patterns(s, session_id, products, prices) ==
    LET Patterns(categories) ==
          [db |-> StageDeliveryPreferences(s.db, session_id, categories),
           result |-> [s.result EXCEPT !.delivery_patterns = Len(categories)]]
    IN Patterns(PatternCategories(products, prices))

\* OnboardingAnalysisService._get_base_product_name: the first two words,
\* lower-cased; the product names of the model are single words
get_base_product_name(product_name) ==
    CASE product_name = "Picanha" -> "picanha"
      [] product_name = "Arroz" -> "arroz"
      [] product_name = "Farinha" -> "farinha"
      [] product_name = "Frango" -> "frango"
      [] product_name = "Sal" -> "sal"
      [] product_name = "Arroz Branco Camil" -> "arroz branco"
      [] product_name = "Arroz Branco Tio Joao" -> "arroz branco"
      [] OTHER -> product_name

\* _analyze_brand_preferences: for each base name shared by two or more
\* branded products, the product that carries the dominant brand, when that
\* brand has at least half of the purchases
BrandWinners(products) ==
    LET Freq(p) == IF p.purchase_frequency # 0 THEN p.purchase_frequency ELSE 1
        Count(g, brand) == SumSeq([k \in DOMAIN g |->
                                     IF g[k].brand = brand THEN Freq(g[k]) ELSE 0])
        Total(g) == SumSeq([k \in DOMAIN g |-> Freq(g[k])])
        Top(g) == CHOOSE k \in DOMAIN g :
                    /\ \A j \in DOMAIN g :
                         Count(g, g[k].brand) >= Count(g, g[j].brand)
                    /\ \A j \in 1..(k - 1) :
                         Count(g, g[j].brand) < Count(g, g[k].brand)
        Dominant(g) == g[Top(g)]
        Eligible(g) == /\ Len(g) >= 2
                       /\ 2 * Count(g, Dominant(g).brand) >= Total(g)
        Winners(branded, groups) ==
          [k \in DOMAIN SelectSeq(groups, Eligible) |->
             Dominant(SelectSeq(groups, Eligible)[k])]
        Groups(branded, bases) ==
          Winners(branded,
                  [k \in DOMAIN bases |->
                     SelectSeq(branded,
                        LAMBDA p : get_base_product_name(p.product_name)
                                       = bases[k])])
        Branded(branded) ==
          Groups(branded,
                 Distinct([k \in DOMAIN branded |->
                             get_base_product_name(branded[k].product_name)],
                          << >>))
    IN Branded(SelectSeq(products, LAMBDA p : p.brand # ""))

RECURSIVE StageBrandPreferences(_, _, _)
StageBrandPreferences(d, session_id, winners) ==
    IF winners = << >> \/ DOMAIN d = {} THEN d
    ELSE StageBrandPreferences(
             stage_preference(d, session_id,
                 [staging_product_id |-> Head(winners).id,
                  preference_type |-> "brand",
                  preference_value |-> [max_price |-> NULL,
                                        text |-> Head(winners).brand],
                  source |-> "inferred"]),
             session_id, Tail(winners))

\* the BrandPreference of a dominant product: the share of its brand among
\* the purchases of its base name and min(share + 0.1, 0.95), in hundredths
BrandPreference(products, winner) ==
    LET Freq(p) == IF p.purchase_frequency # 0 THEN p.purchase_frequency ELSE 1
        group == SelectSeq(products,
                    LAMBDA p : /\ p.brand # ""
                               /\ get_base_product_name(p.product_name)
                                    = get_base_product_name(winner.product_name))
        count == SumSeq([k \in DOMAIN group |->
                           IF group[k].brand = winner.brand
                           THEN Freq(group[k]) ELSE 0])
        total_count == SumSeq([k \in DOMAIN group |-> Freq(group[k])])
    IN [product_name |-> get_base_product_name(winner.product_name),
        brand_name |-> winner.brand,
        purchase_percentage |-> RoundDiv(100 * count, total_count),
        purchase_count |-> count,
        confidence |-> Min(RoundDiv(100 * count, total_count) + 10, 95)]

\* result.brand_preferences: sorted by purchase_percentage, highest first
BrandPreferences(products, winners) ==
    SortedDesc([k \in DOMAIN winners |-> BrandPreference(products, winners[k])],
               [k \in DOMAIN winners |->
                  BrandPreference(products, winners[k]).purchase_percentage])

\* OnboardingAnalysisService._analyze_brand_preferences
analyze_brand_preferences(s, session_id, products) ==
    LET Brands(winners) ==
          [db |-> StageBrandPreferences(s.db, session_id, winners),
           result |-> [s.result EXCEPT !.brand_preferences =
                                           BrandPreferences(products, winners)]]
    IN Brands(BrandWinners(products))

\* _generate_insights: the types of the insights built from the result;
\* `top` holds top_suppliers[0], and is empty when there is no ranking
InsightTypes(result, top) ==
    (IF result.top_category # "" THEN << "spend_distribution" >> ELSE << >>)
    \o (IF result.pareto_percentage > 0 THEN << "pareto_analysis" >> ELSE << >>)
    \o (IF /\ top # << >>
           /\ result.total_spend > 0
           /\ top[1].total_spend * 100 > 40 * result.total_spend
        THEN << "diversification_suggestion" >> ELSE << >>)
    \o (IF \E k \in DOMAIN result.price_ranges :
              result.price_ranges[k].high_variance
        THEN << "price_opportunity" >> ELSE << >>)
    \o (IF \E k \in DOMAIN result.top_products :
              result.top_products[k].purchase_frequency > 5
        THEN << "purchasing_frequency" >> ELSE << >>)

RECURSIVE InsertInsights(_, _, _)
InsertInsights(d, session_id, insights) ==
    IF insights = << >> \/ DOMAIN d = {} THEN d
    ELSE InsertInsights(
             Insert(d, "onboarding_analysis_insights",
                    [session_id |-> session_id, insight_type |-> Head(insights)]),
             session_id, Tail(insights))

\* OnboardingAnalysisService._generate_insights
generate_insights(s, session_id, top) ==
    LET Saved(insights) ==
          [db |-> InsertInsights(s.db, session_id, insights),
           result |-> [s.result EXCEPT !.insights = insights]]
    IN Saved(InsightTypes(s.result, top))

\* OnboardingAnalysisResult as run_full_analysis initialises it
NewAnalysisResult(session_id, photos, suppliers, products) ==
    [session_id |-> session_id,
     invoice_count |-> Len(photos),
     supplier_count |-> Len(suppliers),
     product_count |-> Len(products),
     total_spend |-> 0,
     top_products |-> << >>,
     top_category |-> "",
     pareto_product_count |-> 0,
     pareto_percentage |-> 0,
     supplier_rankings |-> {},
     price_ranges |-> << >>,
     delivery_patterns |-> 0,
     brand_preferences |-> << >>,
     insights |-> << >>]

\* run_full_analysis for one choice of what the store and the runtime leave
\* open: `fetched` is the order of the first get_staged_products, `refreshed`
\* the order of the one inside _analyze_products, `top` the first rank-1
\* supplier ranking
AnalysisRun(d, session_id, fetched, refreshed, top) ==
    LET Finish(s) ==
          [db |-> UpdateId(s.db, "onboarding_sessions", session_id,
                           [analysis_completed |-> TRUE,
                            current_phase |-> "summary"]),
           result |-> s.result]
        Steps(d0, suppliers, products, prices, photos) ==
          Finish(
            generate_insights(
              analyze_brand_preferences(
                analyze_patterns(
                  analyze_prices(
                    analyze_suppliers(
                      analyze_products(
                        [db |-> d0,
                         result |-> NewAnalysisResult(session_id, photos,
                                                      suppliers, products)],
                        session_id, products, prices, refreshed),
                      suppliers, products, prices),
                    session_id, products, prices),
                  session_id, products, prices),
                session_id, products),
              session_id, top))
        Fetch(d0) ==
          Steps(d0,
                staged_supplier_rows(d0,
                     get_staged_suppliers(d0, session_id)),
                staged_product_rows(d0, fetched),
                staged_price_rows(d0, get_staged_prices(d0, session_id)),
                get_invoice_photos(d0, session_id))
    IN Fetch(update_session_phase(d, session_id, "analysis"))

\* the orders the refresh inside _analyze_products may return
RefreshOrders(d, session_id, fetched) ==
    LET Orders(d0, products, prices) ==
          get_staged_products(
              UpdateProducts(d0, products, prices, TotalSpend(products, prices)),
              session_id)
        Fetch(d0) ==
          Orders(d0, staged_product_rows(d0, fetched),
                 staged_price_rows(d0, get_staged_prices(d0, session_id)))
    IN Fetch(update_session_phase(d, session_id, "analysis"))

\* the choices for top_suppliers[0]
TopChoices(d, session_id, fetched) ==
    LET Choices(candidates) ==
          IF candidates = {} THEN { << >> } ELSE { << c >> : c \in candidates }
    IN Choices(TopCandidates(
                   staged_supplier_rows(d,
                        get_staged_suppliers(d, session_id)),
                   staged_product_rows(d, fetched),
                   staged_price_rows(d, get_staged_prices(d, session_id))))

\* OnboardingAnalysisService.run_full_analysis: every outcome [db, result]
\* the call can have on the store d
run_full_analysis(d, session_id) ==
    UNION { UNION { { AnalysisRun(d, session_id, fetched, refreshed, top) :
                        top \in TopChoices(d, session_id, fetched) } :
                    refreshed \in RefreshOrders(d, session_id, fetched) } :
            fetched \in get_staged_products(d, session_id) }

\* ------------------------------------------------- commit_onboarding itself
\* models.py, CommitResult()
NewCommitResult ==
    [success |-> FALSE,
     restaurant_id |-> NULL,
     person_id |-> NULL,
     suppliers_committed |-> 0,
     products_committed |-> 0,
     prices_committed |-> 0,
     preferences_committed |-> 0,
     errors |-> << >>]

\* the steps of commit_onboarding, in the order of its body
CommitSteps ==
    << "restaurant", "person", "suppliers", "embeddings", "products",
       "mappings", "prices", "preferences", "queue", "engagement_profile",
       "finalize" >>

\* the frame of a commit_onboarding call right after get_session_summary:
\* its arguments, the session row it read, its locals and its result;
\* `completed` is history: the steps this call has run to their end
NewCommitFrame(d, session_id, telegram_chat_id) ==
    [session_id |-> session_id,
     telegram_chat_id |-> telegram_chat_id,
     session |-> d["onboarding_sessions"][session_id],
     restaurant_id |-> NULL,
     person_id |-> NULL,
     supplier_mapping |-> << >>,
     staged_products |-> << >>,
     product_mapping |-> << >>,
     result |-> NewCommitResult,
     completed |-> << >>]

\* commit_onboarding, step k of the try block run to its end on the store d
\* with the frame c; `order` is the order in which get_staged_products
\* returns the products (read by step 4 only)
CommitStep(k, d, c, order) ==
    LET Restaurant(id) ==
          [db |-> commit_restaurant(d, c.session, c.session_id),
           c |-> [c EXCEPT !.restaurant_id = id, !.result.restaurant_id = id]]
        Person(id) ==
          [db |-> commit_restaurant_person(d, c.restaurant_id,
                                           c.telegram_chat_id),
           c |-> [c EXCEPT !.person_id = id, !.result.person_id = id]]
        Suppliers(r) ==
          [db |-> r.db,
           c |-> [c EXCEPT !.supplier_mapping = r.mapping,
                           !.result.suppliers_committed =
                               Cardinality(DOMAIN r.mapping)]]
        Embeddings(staged_products) ==
          [db |-> generate_product_embeddings(d, staged_products),
           c |-> [c EXCEPT !.staged_products = staged_products]]
        Products(r) ==
          [db |-> r.db,
           c |-> [c EXCEPT !.product_mapping = r.mapping,
                           !.result.products_committed =
                               Cardinality(DOMAIN r.mapping)]]
        Prices(r) ==
          [db |-> r.db,
           c |-> [c EXCEPT !.result.prices_committed = r.committed]]
        Preferences(r) ==
          [db |-> r.db,
           c |-> [c EXCEPT !.result.preferences_committed = r.committed]]
    IN CASE k = 1 -> Restaurant(NextId(d, "restaurants"))
         [] k = 2 -> Person(NextId(d, "restaurant_people"))
         [] k = 3 ->
              Suppliers(commit_suppliers(d,
                  staged_supplier_rows(d,
                       get_staged_suppliers(d, c.session_id)),
                  << >>))
         [] k = 4 -> Embeddings(staged_product_rows(d, order))
         [] k = 5 ->
              Products(commit_products(d, c.staged_products, c.restaurant_id,
                                       << >>))
         [] k = 6 ->
              [db |-> commit_supplier_mappings(d, c.staged_products,
                          c.supplier_mapping, c.product_mapping),
               c |-> c]
         [] k = 7 ->
              Prices(commit_prices(d,
                  staged_price_rows(d,
                       get_staged_prices(d, c.session_id)),
                  c.supplier_mapping, c.product_mapping, 0))
         [] k = 8 ->
              Preferences(commit_preferences(d,
                  staged_preference_rows(d,
                       get_staged_preferences(d, c.session_id)),
                  c.restaurant_id, c.product_mapping))
         [] k = 9 ->
              [db |-> populate_preference_queue(d, c.staged_products,
                          c.restaurant_id, c.product_mapping),
               c |-> c]
         [] k = 10 ->
              [db |-> create_engagement_profile(d, c.session_id,
                                                c.restaurant_id),
               c |-> c]
         [] k = 11 ->
              [db |-> finalize_session(d, c.session_id, c.restaurant_id,
                                       c.person_id),
               c |-> [c EXCEPT !.result.success = TRUE]]

\* an except clause that swallows the error
OnExceptionSilent(c, k) == c

\* commit_onboarding, the except clause: the error is recorded in the
\* result and the call returns
OnException(c, k) ==
    [c EXCEPT !.result.errors = Append(@, CommitSteps[k])]

\* a handler that goes on with the next step after step k has raised
AfterExceptionResume(k) == IF k < Len(CommitSteps) THEN k + 1 ELSE 0

\* the step that runs after step k has raised: none, the call returns
AfterException(k) == 0

\* the step that runs after step k has completed (0: the call returns)
AfterStep(k) == IF k < Len(CommitSteps) THEN k + 1 ELSE 0

\* commit_onboarding from step k on, where step fail_at (if any) raises at
\* its first request
RECURSIVE RunCommit(_, _, _, _, _)
RunCommit(k, d, c, fail_at, order) ==
    LET Continue(s) == RunCommit(AfterStep(k), s.db, s.c, fail_at, order)
    IN IF k = 0 THEN [db |-> d, result |-> c.result]
       ELSE IF k = fail_at
            THEN RunCommit(AfterException(k), d, OnException(c, k), 0, order)
            ELSE Continue(CommitStep(k, d, c, order))

\* OnboardingCommitService.commit_onboarding: every outcome [db, result]
\* of a call on the store d
commit_onboarding(d, session_id, telegram_chat_id) ==
    { RunCommit(1, d, NewCommitFrame(d, session_id, telegram_chat_id),
                fail_at, order) :
        fail_at \in 0..Len(CommitSteps),
        order \in get_staged_products(d, session_id) }

\* ------------------------------------------------------------ image parser
\* the photos of the model: what parse_invoice_image extracts from each
PhotoUrls == { "I1", "I2", "I3", "I4", "bad" }

\* the photos of long invoices: L<n>z<z> has n lines, the k-th of product
\* LineNames[k] with quantity k at R$10, the last z of them without a legible
\* price
LongInvoices ==
    { "L9z0", "L10z0", "L11z0", "L12z0", "L10z2", "L11z2", "L12z2", "L12z3" }

LineCount(url) ==
    CASE url = "L9z0" -> 9
      [] url \in { "L10z0", "L10z2" } -> 10
      [] url \in { "L11z0", "L11z2" } -> 11
      [] OTHER -> 12

Unpriced(url) ==
    CASE url \in { "L10z2", "L11z2", "L12z2" } -> 2
      [] url = "L12z3" -> 3
      [] OTHER -> 0

LineNames ==
    << "P01", "P02", "P03", "P04", "P05", "P06", "P07", "P08", "P09", "P10",
       "P11", "P12" >>

\* what the vision model answers for each photo. The text is a sequence of
\* pieces: the markdown fence markers, "FENCEjson" for the opening marker
\* with the word json and "FENCE" for the bare marker, and bodies; the body
\* of a legible invoice is the JSON object of that invoice (named as the
\* photo),
\* "[]" is JSON but no object, "garbage" is no JSON. `failed` is a download
\* or a completion call that raised
VisionResponse(url) ==
    CASE url = "I1" -> [failed |-> FALSE, text |-> << "I1" >>]
      [] url = "I2" -> [failed |-> FALSE, text |-> << "FENCEjson", "I2", "FENCE" >>]
      [] url = "I3" -> [failed |-> FALSE, text |-> << "FENCE", "I3", "FENCE" >>]
      [] url = "I4" -> [failed |-> FALSE, text |-> << "I4" >>]
      [] url = "bad" -> [failed |-> FALSE, text |-> << "garbage" >>]
      [] url = "badjson" ->
           [failed |-> FALSE, text |-> << "FENCEjson", "garbage", "FENCE" >>]
      [] url = "badfence" ->
           [failed |-> FALSE, text |-> << "FENCE", "garbage", "FENCE" >>]
      [] url = "list" -> [failed |-> FALSE, text |-> << "[]" >>]
      [] url \in LongInvoices -> [failed |-> FALSE, text |-> << url >>]
      [] OTHER -> [failed |-> TRUE, text |-> << >>]

\* the object json.loads returns for the body of a legible invoice, as
\* ParsedInvoice holds it (confidence_score in hundredths, 0.8 when the
\* answer has none)
InvoiceData(body) ==
    CASE body = "I1" ->
           [supplier_name |-> "Marfrig", supplier_cnpj |-> "",
            invoice_date |-> "15/01/2024", invoice_number |-> "N1",
            items |-> << [product_name |-> "Picanha", quantity |-> 10,
                          unit_price |-> 43] >>,
            confidence_score |-> 90]
      [] body = "I2" ->
           [supplier_name |-> "Marfrig", supplier_cnpj |-> "",
            invoice_date |-> "16/01/2024", invoice_number |-> "N2",
            items |-> << [product_name |-> "Arroz", quantity |-> 5,
                          unit_price |-> 29] >>,
            confidence_score |-> 90]
      [] body = "I3" ->
           [supplier_name |-> "Atacadao", supplier_cnpj |-> "",
            invoice_date |-> "17/01/2024", invoice_number |-> "N3",
            items |-> << [product_name |-> "Farinha", quantity |-> 5,
                          unit_price |-> 20],
                         [product_name |-> "Frango", quantity |-> 10,
                          unit_price |-> 40] >>,
            confidence_score |-> 80]
      [] body = "I4" ->
           [supplier_name |-> "Marfrig", supplier_cnpj |-> "",
            invoice_date |-> "", invoice_number |-> "N4",
            items |-> << [product_name |-> "Sal", quantity |-> 1,
                          unit_price |-> 0] >>,
            confidence_score |-> 80]
      [] body \in LongInvoices ->
           [supplier_name |-> "Atacadao", supplier_cnpj |-> "",
            invoice_date |-> "17/01/2024", invoice_number |-> body,
            items |-> [k \in 1..LineCount(body) |->
                         [product_name |-> LineNames[k], quantity |-> k,
                          unit_price |->
                              IF k > LineCount(body) - Unpriced(body)
                              THEN 0 ELSE 10]],
            confidence_score |-> 80]

\* the bodies json.loads accepts, and those of them that are objects
JsonBodies == { "I1", "I2", "I3", "I4", "[]" } \cup LongInvoices
JsonObjects == { "I1", "I2", "I3", "I4" } \cup LongInvoices

\* text.split(marker)[1]: the pieces after the first piece that contains
\* the marker, up to the next such piece
RECURSIVE UpTo(_, _)
UpTo(text, markers) ==
    IF text = << >> \/ Head(text) \in markers THEN << >>
    ELSE << Head(text) >> \o UpTo(Tail(text), markers)

RECURSIVE After(_, _)
After(text, markers) ==
    IF text = << >> THEN << >>
    ELSE IF Head(text) \in markers THEN Tail(text)
    ELSE After(Tail(text), markers)

\* the text with its fence markers left in place
KeepFences(text) == text

\* parse_invoice_image, "handle potential markdown wrapping"
StripFences(text) ==
    IF \E k \in DOMAIN text : text[k] = "FENCEjson"
    THEN UpTo(UpTo(After(text, { "FENCEjson" }), { "FENCEjson" }),
              { "FENCEjson", "FENCE" })
    ELSE IF \E k \in DOMAIN text : text[k] = "FENCE"
    THEN UpTo(After(text, { "FENCE" }), { "FENCE" })
    ELSE text

\* the results of the two except clauses of parse_invoice_image
ParseErrorInvoice ==
    [supplier_name |-> "Parse Error", supplier_cnpj |-> "",
     invoice_date |-> "", invoice_number |-> "", items |-> << >>,
     confidence_score |-> 0]

ErrorInvoice ==
    [supplier_name |-> "Error", supplier_cnpj |-> "",
     invoice_date |-> "", invoice_number |-> "", items |-> << >>,
     confidence_score |-> 0]

\* tools/image_parser.py, parse_invoice_image: json.loads raises
\* JSONDecodeError on a text that is not one JSON body; reading the fields
\* of a body that is no object raises, as a failed call does
parse_invoice_image(url) ==
    LET response == VisionResponse(url)
        json_text == StripFences(response.text)
    IN IF response.failed THEN ErrorInvoice
       ELSE IF Len(json_text) # 1 \/ json_text[1] \notin JsonBodies
       THEN ParseErrorInvoice
       ELSE IF json_text[1] \notin JsonObjects THEN ErrorInvoice
       ELSE InvoiceData(json_text[1])

\* tools/image_parser.py, parse_multiple_invoices
parse_multiple_invoices(image_urls) ==
    LET results == [k \in DOMAIN image_urls |-> parse_invoice_image(image_urls[k])]
    IN SelectSeq(results, LAMBDA r : /\ r.supplier_name # "Error"
                                     /\ r.supplier_name # "Parse Error")

\* datetime.strptime(s, "%d/%m/%Y").date() followed by isoformat()
ParseInvoiceDate(s) ==
    CASE s = "15/01/2024" -> "2024-01-15"
      [] s = "16/01/2024" -> "2024-01-16"
      [] s = "17/01/2024" -> "2024-01-17"
      [] OTHER -> ""

\* --------------------------------------------------------- onboarding agent
\* agent.py, OnboardingContext()
NewOnboardingContext ==
    [telegram_chat_id |-> NULL,
     restaurant_id |-> NULL,
     restaurant_name |-> "",
     uploaded_photos |-> << >>,
     products_list |-> << >>,
     onboarding_complete |-> FALSE,
     staging_session_id |-> NULL]

\* OnboardingAgent._save_restaurant_info
save_restaurant_info(d, context, name) ==
    LET Saved(r) ==
          [db |-> save_restaurant_basic_info(r.db, r.id, name),
           context |-> [context EXCEPT !.restaurant_name = name,
                                       !.staging_session_id = r.id]]
    IN Saved(get_or_create_session(d, context.telegram_chat_id))

\* _process_invoice_photos, the items of one invoice: a product per item
\* and a price for each item that has a unit price
RECURSIVE StageItems(_, _, _, _, _)
StageItems(d, session_id, invoice, supplier_id, items) ==
    IF items = << >> \/ DOMAIN d = {} THEN d
    ELSE LET item == Head(items)
             product_id == NextId(d, "onboarding_staging_products")
             d1 == stage_product(d, session_id, item.product_name, supplier_id)
             d2 == IF item.unit_price # NULL
                   THEN stage_price(d1, session_id,
                            [staging_product_id |-> product_id,
                             staging_supplier_id |-> supplier_id,
                             unit_price |-> item.unit_price,
                             quantity_purchased |-> item.quantity,
                             total_line_amount |->
                                 IF item.quantity # NULL
                                 THEN item.quantity * item.unit_price ELSE NULL,
                             invoice_date |-> ParseInvoiceDate(invoice.invoice_date),
                             invoice_number |-> invoice.invoice_number])
                   ELSE d1
         IN StageItems(d2, session_id, invoice, supplier_id, Tail(items))

\* _process_invoice_photos, the loop over the parsed invoices; supplier_ids
\* is the dict supplier name -> staged supplier id of this call
RECURSIVE StageInvoices(_, _, _, _, _)
StageInvoices(d, context, invoices, invoice_index, supplier_ids) ==
    LET invoice == invoices[invoice_index + 1]
        session_id == context.staging_session_id
        isNew == /\ invoice.supplier_name # ""
                 /\ invoice.supplier_name \notin DOMAIN supplier_ids
        Items(d2, ids2) ==
          StageInvoices(
              StageItems(d2, session_id, invoice,
                         MapGet(ids2, invoice.supplier_name), invoice.items),
              context, invoices, invoice_index + 1, ids2)
        Supplier(d1) ==
          IF isNew
          THEN Items(stage_supplier(d1, session_id, invoice.supplier_name,
                                    invoice.supplier_cnpj),
                     (invoice.supplier_name :>
                         NextId(d1, "onboarding_staging_suppliers"))
                     @@ supplier_ids)
          ELSE Items(d1, supplier_ids)
    IN IF invoice_index >= Len(invoices) \/ DOMAIN d = {} THEN d
       ELSE Supplier(IF invoice_index < Len(context.uploaded_photos)
                     THEN save_photo_metadata(d, session_id,
                              context.uploaded_photos[invoice_index + 1],
                              invoice_index)
                     ELSE d)

\* the product names of a list of invoices, item by item
RECURSIVE ProductNames(_)
ProductNames(invoices) ==
    IF invoices = << >> THEN << >>
    ELSE [k \in DOMAIN Head(invoices).items |->
            Head(invoices).items[k].product_name]
         \o ProductNames(Tail(invoices))

\* OnboardingAgent._process_invoice_photos
process_invoice_photos(d, context) ==
    LET Staged(invoices) ==
          IF \/ context.uploaded_photos = << >>
             \/ context.staging_session_id = NULL
             \/ invoices = << >>
          THEN [db |-> d, context |-> context]
          ELSE [db |-> update_session_phase(
                           StageInvoices(d, context, invoices, 0, << >>),
                           context.staging_session_id, "products_collected"),
                context |-> [context EXCEPT
                               !.products_list = ProductNames(invoices)]]
    IN Staged(parse_multiple_invoices(context.uploaded_photos))

\* OnboardingAgent._save_products_manually: stage_product is called with
\* keyword arguments it does not have, so the first product raises TypeError
\* and the except clause returns; without products the loop does not run.
\* The dict the tool returns is kept as `analysis`.
save_products_manually(d, context, products) ==
    [db |-> IF context.staging_session_id # NULL /\ products = << >>
            THEN update_session_phase(d, context.staging_session_id,
                                      "products_collected")
            ELSE d,
     context |-> [context EXCEPT !.products_list = products],
     analysis |-> IF context.staging_session_id # NULL /\ products = << >>
                  THEN << [status |-> "success", product_count |-> 0] >>
                  ELSE << [status |-> "error", product_count |-> NULL] >>]

\* OnboardingAgent._run_analysis: every outcome of the tool
run_analysis(d, context) ==
    IF context.staging_session_id = NULL
    THEN { [db |-> d, context |-> context] }
    ELSE { [db |-> update_session_phase(out.db, context.staging_session_id,
                                        "analysis_complete"),
            context |-> context,
            analysis |-> << out.result >>] :
             out \in run_full_analysis(d, context.staging_session_id) }

\* OnboardingAgent._save_engagement_choice
save_engagement_choice(d, context, choice) ==
    IF context.staging_session_id = NULL
    THEN [db |-> d, context |-> context]
    ELSE [db |-> update_session_phase(
                     UpdateId(d, "onboarding_sessions",
                              context.staging_session_id,
                              [engagement_choice |-> choice,
                               current_phase |-> "engagement_gauge"]),
                     context.staging_session_id,
                     IF choice \in {1, 2} THEN "targeted_preferences"
                     ELSE "summary"),
          context |-> context]

\* the tool without its user_confirmed test
commit_unconfirmed(d, context, user_confirmed) ==
    IF context.staging_session_id = NULL
    THEN { [db |-> d, context |-> context] }
    ELSE { [db |-> out.db,
            context |-> IF out.result.success
                        THEN [context EXCEPT
                                !.restaurant_id = out.result.restaurant_id]
                        ELSE context] :
             out \in commit_onboarding(d, context.staging_session_id,
                                       context.telegram_chat_id) }

\* OnboardingAgent._confirm_and_commit_onboarding: every outcome of the tool
confirm_and_commit_onboarding(d, context, user_confirmed) ==
    IF ~user_confirmed \/ context.staging_session_id = NULL
    THEN { [db |-> d, context |-> context] }
    ELSE { [db |-> out.db,
            context |-> IF out.result.success
                        THEN [context EXCEPT
                                !.restaurant_id = out.result.restaurant_id]
                        ELSE context] :
             out \in commit_onboarding(d, context.staging_session_id,
                                       context.telegram_chat_id) }

\* OnboardingAgent._complete_onboarding
complete_onboarding(d, context) ==
    [db |-> UpdateId(d, "restaurants", context.restaurant_id,
                     [onboarding_completed_at |-> TRUE]),
     context |-> [context EXCEPT !.onboarding_complete = TRUE]]

\* ------------------------------------------------------------ telegram bot
\* the set of object references a chat's UserSession can live at
Refs == 1..MaxChats

\* telegram_bot.py, UserSession()
NewUserSession ==
    [user_type |-> "unknown",
     user_id |-> NULL,
     restaurant_id |-> NULL,
     supplier_id |-> NULL,
     name |-> "",
     awaiting_role_selection |-> FALSE,
     needs_onboarding |-> FALSE,
     onboarding_context |-> NewOnboardingContext,
     restaurant_context |-> [restaurant_id |-> NULL, restaurant_name |-> "",
                             messages |-> 0],
     supplier_context |-> [supplier_id |-> NULL, supplier_name |-> "",
                           messages |-> 0]]

\* a constructor that hands out one shared UserSession object
NewRefShared(sess) == 1

\* the reference a newly constructed UserSession gets: one no chat holds
NewRef(sess) ==
    CHOOSE r \in Refs :
      /\ \A c \in Chats : sess[c] # r
      /\ \A q \in Refs : (\A c \in Chats : sess[c] # q) => r <= q

\* telegram_bot.py, get_session: the session map, the objects and the
\* reference returned
get_session(sess, hp, chat_id) ==
    IF sess[chat_id] = NULL
    THEN LET r == NewRef(sess)
         IN [sessions |-> [sess EXCEPT ![chat_id] = r],
             heap |-> [hp EXCEPT ![r] = NewUserSession],
             ref |-> r]
    ELSE [sessions |-> sess, heap |-> hp, ref |-> sess[chat_id]]

\* telegram_bot.py, clear_session: the entry is deleted and, nothing else
\* referring to it, so is the object
clear_session(sess, hp, chat_id) ==
    IF sess[chat_id] # NULL
    THEN [sessions |-> [sess EXCEPT ![chat_id] = NULL],
          heap |-> IF \E c \in Chats \ {chat_id} : sess[c] = sess[chat_id]
                   THEN hp
                   ELSE [hp EXCEPT ![sess[chat_id]] = NewUserSession]]
    ELSE [sessions |-> sess, heap |-> hp]

\* shared/user_identification.py, identify_user
identify_user(d, telegram_chat_id) ==
    LET chat_id_str == ToString(telegram_chat_id)
        person == FirstOf(SelectEq(d, "restaurant_people", "whatsapp_number",
                                   chat_id_str))
        supplier == FirstOf(SelectEq(d, "suppliers", "whatsapp_number",
                                     chat_id_str))
    IN IF person # NULL
       THEN LET row == d["restaurant_people"][person]
                rid == row.restaurant_id
            IN [user_type |-> "restaurant",
                user_id |-> person,
                restaurant_id |-> rid,
                supplier_id |-> NULL,
                name |-> row.first_name,
                onboarding_complete |->
                    /\ rid \in 1..Len(d["restaurants"])
                    /\ d["restaurants"][rid].onboarding_completed_at]
       ELSE IF supplier # NULL
       THEN [user_type |-> "supplier",
             user_id |-> supplier,
             restaurant_id |-> NULL,
             supplier_id |-> supplier,
             name |-> d["suppliers"][supplier].company_name,
             onboarding_complete |-> FALSE]
       ELSE [user_type |-> "unknown", user_id |-> NULL, restaurant_id |-> NULL,
             supplier_id |-> NULL, name |-> "", onboarding_complete |-> FALSE]

\* telegram_bot.py, identify_and_setup_session: the session object after it
identify_and_setup_session(d, chat_id, session) ==
    LET Onboarding(identification, s2) ==
          IF s2.needs_onboarding
          THEN [s2 EXCEPT
                  !.onboarding_context.telegram_chat_id = chat_id,
                  !.onboarding_context.restaurant_id =
                      identification.restaurant_id]
          ELSE s2
        Route(identification, s1) ==
          CASE identification.user_type = "restaurant" ->
                 Onboarding(identification,
                     [s1 EXCEPT
                        !.restaurant_context.restaurant_id =
                            identification.restaurant_id,
                        !.restaurant_context.restaurant_name =
                            identification.name,
                        !.needs_onboarding =
                            ~identification.onboarding_complete])
            [] identification.user_type = "supplier" ->
                 [s1 EXCEPT
                    !.supplier_context.supplier_id = identification.supplier_id,
                    !.supplier_context.supplier_name = identification.name]
            [] OTHER -> s1
        Setup(identification) ==
          Route(identification,
                [session EXCEPT
                   !.user_type = identification.user_type,
                   !.user_id = identification.user_id,
                   !.restaurant_id = identification.restaurant_id,
                   !.supplier_id = identification.supplier_id,
                   !.name = identification.name])
    IN Setup(identify_user(d, chat_id))

\* start_command and handle_message: a chat that identification leaves
\* unknown is asked for its role
AskRoleIfUnknown(session) ==
    IF session.user_type = "unknown"
    THEN [session EXCEPT !.awaiting_role_selection = TRUE]
    ELSE session

\* handle_message up to the routing: get_session, and the identification of
\* a session that is still unknown and not awaiting a role
EnterMessage(d, sess, hp, chat_id) ==
    LET Identify(session) ==
          IF session.user_type = "unknown" /\ ~session.awaiting_role_selection
          THEN AskRoleIfUnknown(identify_and_setup_session(d, chat_id, session))
          ELSE session
        Enter(g) ==
          [sessions |-> g.sessions,
           heap |-> [g.heap EXCEPT ![g.ref] = Identify(g.heap[g.ref])],
           ref |-> g.ref]
    IN Enter(get_session(sess, hp, chat_id))

\* handle_message after onboarding_chat returned: a completed onboarding
\* moves the chat to the main restaurant agent
AfterOnboardingChat(session) ==
    IF session.onboarding_context.onboarding_complete
    THEN [session EXCEPT
            !.needs_onboarding = FALSE,
            !.restaurant_context.restaurant_name =
                session.onboarding_context.restaurant_name]
    ELSE session

\* handle_role_selection, the answer "1": the chat becomes a restaurant in
\* onboarding
AfterRoleRestaurant(session, chat_id) ==
    [session EXCEPT !.user_type = "restaurant",
                    !.awaiting_role_selection = FALSE,
                    !.needs_onboarding = TRUE,
                    !.onboarding_context.telegram_chat_id = chat_id]

\* ------------------------------------------------------------------- state
VARIABLES
    db,        \* the Supabase store: table name -> rows
    sessions,  \* telegram_bot._sessions: chat id -> UserSession reference
    heap,      \* the UserSession objects, by reference
    handled,   \* how many updates the bot has handled
    last,      \* the operation that ran last: [op, chat, analysis, questions],
               \* where analysis holds what run_full_analysis (or the tool
               \* itself) returned to it, if any, and questions the drip
               \* questions it was given; after
               \* a heartbeat job also [sent, now]: the messages the job sent
               \* and the day it read from the clock
    pc,        \* commit_onboarding in progress: the step about to run, or 0
    frame,     \* commit_onboarding in progress: arguments, locals, result
    db0,       \* the store as it was when the commit call in `frame` began
    calls      \* how many commit_onboarding calls have begun

vars == << db, sessions, heap, handled, last, pc, frame, db0, calls >>

botVars == << sessions, heap, handled >>
commitVars == << pc, frame, db0, calls >>

\* the frame of a commit service that has not been called
IdleFrame ==
    [session_id |-> NULL, telegram_chat_id |-> NULL, session |-> << >>,
     restaurant_id |-> NULL, person_id |-> NULL, supplier_mapping |-> << >>,
     staged_products |-> << >>, product_mapping |-> << >>,
     result |-> NewCommitResult, completed |-> << >>]

\* the bot after start-up on an empty database
Init ==
    /\ db = EmptyDb
    /\ sessions = [c \in Chats |-> NULL]
    /\ heap = [r \in Refs |-> NewUserSession]
    /\ handled = 0
    /\ last = [op |-> "none", chat |-> NULL, analysis |-> << >>, questions |-> << >>]
    /\ pc = 0
    /\ frame = IdleFrame
    /\ db0 = EmptyDb
    /\ calls = 0

\* one update handled for chat: the bookkeeping every handler action shares
Handled(op, chat) ==
    /\ handled < MaxHandled
    /\ handled' = handled + 1
    /\ last' = [op |-> op, chat |-> chat, analysis |-> << >>, questions |-> << >>]
    /\ UNCHANGED commitVars

\* telegram_bot.py, start_command
StartCommand(chat) ==
    \E c \in { clear_session(sessions, heap, chat) } :
    \E g \in { get_session(c.sessions, c.heap, chat) } :
       /\ Handled("start_command", chat)
       /\ sessions' = g.sessions
       /\ heap' = [g.heap EXCEPT ![g.ref] =
                     AskRoleIfUnknown(
                         identify_and_setup_session(db, chat, g.heap[g.ref]))]
       /\ UNCHANGED db

\* clear_command: the fresh conversation contexts of a session
ClearedContexts(session) ==
    [session EXCEPT
       !.restaurant_context =
           [restaurant_id |-> IF session.user_type = "restaurant"
                              THEN session.restaurant_id ELSE NULL,
            restaurant_name |-> IF session.user_type = "restaurant"
                                THEN session.name ELSE "",
            messages |-> 0],
       !.supplier_context =
           [supplier_id |-> IF session.user_type = "supplier"
                            THEN session.supplier_id ELSE NULL,
            supplier_name |-> IF session.user_type = "supplier"
                              THEN session.name ELSE "",
            messages |-> 0]]

\* telegram_bot.py, clear_command
ClearCommand(chat) ==
    \E g \in { get_session(sessions, heap, chat) } :
       /\ Handled("clear_command", chat)
       /\ sessions' = g.sessions
       /\ heap' = [g.heap EXCEPT ![g.ref] = ClearedContexts(g.heap[g.ref])]
       /\ UNCHANGED db

\* telegram_bot.py, handle_photo
HandlePhoto(chat, file_url) ==
    \E g \in { get_session(sessions, heap, chat) } :
       /\ Len(g.heap[g.ref].onboarding_context.uploaded_photos) < MaxPhotos
       /\ Handled("handle_photo", chat)
       /\ sessions' = g.sessions
       /\ heap' = IF g.heap[g.ref].needs_onboarding
                  THEN [g.heap EXCEPT
                          ![g.ref].onboarding_context.uploaded_photos =
                              Append(@, file_url)]
                  ELSE g.heap
       /\ UNCHANGED db

\* handle_role_selection: the session after the answer
AfterRoleSelection(session, chat_id, message) ==
    CASE message = "1" -> AfterRoleRestaurant(session, chat_id)
      [] message = "2" -> [session EXCEPT !.user_type = "supplier",
                                          !.awaiting_role_selection = FALSE]
      [] OTHER -> session

\* telegram_bot.py, handle_message routed to handle_role_selection
RoleSelection(chat, message) ==
    \E e \in { EnterMessage(db, sessions, heap, chat) } :
       /\ e.heap[e.ref].awaiting_role_selection
       /\ Handled("handle_role_selection", chat)
       /\ sessions' = e.sessions
       /\ heap' = [e.heap EXCEPT ![e.ref] =
                     AfterRoleSelection(e.heap[e.ref], chat, message)]
       /\ UNCHANGED db

\* telegram_bot.py, handle_message routed to the main restaurant agent
RestaurantChat(chat) ==
    \E e \in { EnterMessage(db, sessions, heap, chat) } :
       /\ ~e.heap[e.ref].awaiting_role_selection
       /\ e.heap[e.ref].user_type = "restaurant"
       /\ ~e.heap[e.ref].needs_onboarding
       /\ Handled("restaurant_chat", chat)
       /\ sessions' = e.sessions
       /\ heap' = [e.heap EXCEPT ![e.ref].restaurant_context.messages = @ + 1]
       /\ UNCHANGED db

\* telegram_bot.py, handle_message routed to the supplier agent
SupplierChat(chat) ==
    \E e \in { EnterMessage(db, sessions, heap, chat) } :
       /\ ~e.heap[e.ref].awaiting_role_selection
       /\ e.heap[e.ref].user_type = "supplier"
       /\ Handled("supplier_chat", chat)
       /\ sessions' = e.sessions
       /\ heap' = [e.heap EXCEPT ![e.ref].supplier_context.messages = @ + 1]
       /\ UNCHANGED db

\* telegram_bot.py, handle_message routed to the onboarding subagent, which
\* executes one tool (OnboardingAgent._execute_tool); `outcomes` is the
\* set of results [db, context] of that tool on the message's context
OnboardingChat(op, chat, outcomes) ==
    \E e \in { EnterMessage(db, sessions, heap, chat) } :
       /\ ~e.heap[e.ref].awaiting_role_selection
       /\ e.heap[e.ref].user_type = "restaurant"
       /\ e.heap[e.ref].needs_onboarding
       /\ handled < MaxHandled
       /\ handled' = handled + 1
       /\ UNCHANGED commitVars
       /\ \E out \in outcomes :
            /\ last' = [op |-> op, chat |-> chat,
                        analysis |-> IF "analysis" \in DOMAIN out
                                     THEN out.analysis ELSE << >>,
                        questions |-> << >>]
            /\ db' = out.db
            /\ sessions' = e.sessions
            /\ heap' = [e.heap EXCEPT ![e.ref] =
                          AfterOnboardingChat(
                              [@ EXCEPT !.onboarding_context = out.context])]

\* the onboarding context the tool of this message works on
ContextOf(chat) ==
    LET Of(e) == e.heap[e.ref].onboarding_context
    IN  Of(EnterMessage(db, sessions, heap, chat))

\* the restaurant names and product lists the user states
RestaurantNames == { "Cantina" }
ManualProducts == { << >>, << "Arroz" >> }

SaveRestaurantInfo(chat, name) ==
    OnboardingChat("save_restaurant_info", chat,
                   { save_restaurant_info(db, ContextOf(chat), name) })

\* the tool runs while the staging table has room for what it stages
ProcessInvoicePhotos(chat) ==
    OnboardingChat("process_invoice_photos", chat,
                   { out \in { process_invoice_photos(db, ContextOf(chat)) } :
                       Len(out.db["onboarding_staging_products"])
                           <= MaxStagedProducts })

SaveProductsManually(chat, products) ==
    OnboardingChat("save_products_manually", chat,
                   { save_products_manually(db, ContextOf(chat), products) })

RunAnalysis(chat) ==
    OnboardingChat("run_analysis", chat, run_analysis(db, ContextOf(chat)))

SaveEngagementChoice(chat, choice) ==
    OnboardingChat("save_engagement_choice", chat,
                   { save_engagement_choice(db, ContextOf(chat), choice) })

ConfirmAndCommitOnboarding(chat, user_confirmed) ==
    OnboardingChat("confirm_and_commit_onboarding", chat,
                   confirm_and_commit_onboarding(db, ContextOf(chat),
                                                 user_confirmed))

CompleteOnboarding(chat) ==
    OnboardingChat("complete_onboarding", chat,
                   { complete_onboarding(db, ContextOf(chat)) })

Next ==
    \E chat \in Chats :
       \/ StartCommand(chat)
       \/ ClearCommand(chat)
       \/ \E file_url \in PhotoUrls : HandlePhoto(chat, file_url)
       \/ \E message \in {"1", "2", "oi"} : RoleSelection(chat, message)
       \/ RestaurantChat(chat)
       \/ SupplierChat(chat)
       \/ \E name \in RestaurantNames : SaveRestaurantInfo(chat, name)
       \/ ProcessInvoicePhotos(chat)
       \/ \E products \in ManualProducts : SaveProductsManually(chat, products)
       \/ RunAnalysis(chat)
       \/ \E choice \in 1..3 : SaveEngagementChoice(chat, choice)
       \/ \E user_confirmed \in BOOLEAN :
             ConfirmAndCommitOnboarding(chat, user_confirmed)
       \/ CompleteOnboarding(chat)

Spec == Init /\ [][Next]_vars

\* ------------------------------------------------ the onboarding tools
\* the in-memory session of a chat that answered "1" to the role question
\* and then sent `photos`: what handle_role_selection and handle_photo
\* leave in the session map
OnboardingSession(chat, photos) ==
    [AfterRoleRestaurant(AskRoleIfUnknown(NewUserSession), chat) EXCEPT
        !.onboarding_context.uploaded_photos = photos]

\* the photos the onboarding chat has sent when the tools start
InitialPhotos ==
    { << >>, << "I1" >>, << "I1", "I2" >>, << "bad", "I2" >>, << "I3" >>,
      << "I4" >> }

\* chat 1 is in onboarding with its photos uploaded, no tool has run yet
\* and MaxToolCalls tool calls can follow
InitTools ==
    /\ db = EmptyDb
    /\ sessions = [c \in Chats |-> IF c = 1 THEN 1 ELSE NULL]
    /\ \E photos \in InitialPhotos :
          heap = [r \in Refs |-> IF r = 1 THEN OnboardingSession(1, photos)
                                 ELSE NewUserSession]
    /\ handled = MaxHandled - MaxToolCalls
    /\ last = [op |-> "none", chat |-> NULL, analysis |-> << >>, questions |-> << >>]
    /\ pc = 0
    /\ frame = IdleFrame
    /\ db0 = EmptyDb
    /\ calls = 0

\* OnboardingAgent._execute_tool: the tools called one at a time
NextTools ==
    \E chat \in Chats :
       \/ \E name \in RestaurantNames : SaveRestaurantInfo(chat, name)
       \/ ProcessInvoicePhotos(chat)
       \/ \E products \in ManualProducts : SaveProductsManually(chat, products)
       \/ RunAnalysis(chat)
       \/ \E choice \in 1..3 : SaveEngagementChoice(chat, choice)
       \/ \E user_confirmed \in BOOLEAN :
             ConfirmAndCommitOnboarding(chat, user_confirmed)
       \/ CompleteOnboarding(chat)

SpecTools == InitTools /\ [][NextTools]_vars

\* --------------------------------------------- commit_onboarding, stepwise
\* the stores and contexts the tools leave for a chat with `photos` before
\* the commit is asked for: the restaurant saved, then the invoices
\* processed, then the analysis run, then the engagement choice saved
StagedAfterInfo(photos) ==
    save_restaurant_info(EmptyDb, OnboardingSession(1, photos).onboarding_context,
                         "Cantina")

StagedAfterPhotos(photos) ==
    LET Processed(s) == process_invoice_photos(s.db, s.context)
    IN Processed(StagedAfterInfo(photos))

StagedAfterAnalysis(photos) ==
    LET Analysed(s) == run_analysis(s.db, s.context)
    IN Analysed(StagedAfterPhotos(photos))

StagedAfterChoice(photos) ==
    { save_engagement_choice(s.db, s.context, choice) :
        s \in StagedAfterAnalysis(photos), choice \in 1..3 }

StagedStates ==
    UNION { { StagedAfterInfo(photos), StagedAfterPhotos(photos) }
              \cup StagedAfterAnalysis(photos)
              \cup StagedAfterChoice(photos) : photos \in InitialPhotos }

\* chat 1 has staged its data, the commit service has not been called
InitCommit ==
    /\ \E s \in StagedStates :
          /\ db = s.db
          /\ heap = [r \in Refs |->
                       IF r = 1
                       THEN [OnboardingSession(1, s.context.uploaded_photos)
                               EXCEPT !.onboarding_context = s.context]
                       ELSE NewUserSession]
    /\ sessions = [c \in Chats |-> IF c = 1 THEN 1 ELSE NULL]
    /\ handled = 0
    /\ last = [op |-> "none", chat |-> NULL, analysis |-> << >>, questions |-> << >>]
    /\ pc = 0
    /\ frame = IdleFrame
    /\ db0 = EmptyDb
    /\ calls = 0

\* commit_onboarding is called for the chat's staging session
\* (_confirm_and_commit_onboarding): the result is created and the session
\* summary read
CommitBegin(chat) ==
    /\ pc = 0
    /\ calls < MaxCommitCalls
    /\ sessions[chat] # NULL
    /\ heap[sessions[chat]].onboarding_context.staging_session_id # NULL
    /\ frame' = NewCommitFrame(db,
                    heap[sessions[chat]].onboarding_context.staging_session_id,
                    heap[sessions[chat]].onboarding_context.telegram_chat_id)
    /\ db0' = db
    /\ pc' = 1
    /\ calls' = calls + 1
    /\ last' = [op |-> "commit_begin", chat |-> chat, analysis |-> << >>, questions |-> << >>]
    /\ UNCHANGED << db, botVars >>

\* step k of the try block runs to its end
CommitRun(k) ==
    /\ pc = k
    /\ \E order \in IF k = 4 THEN get_staged_products(db, frame.session_id)
                    ELSE { << >> } :
       \E s \in { CommitStep(k, db, frame, order) } :
          /\ db' = s.db
          /\ frame' = [s.c EXCEPT !.completed = Append(@, CommitSteps[k])]
    /\ pc' = AfterStep(k)
    /\ last' = [op |-> "commit_step", chat |-> frame.telegram_chat_id,
                analysis |-> << >>, questions |-> << >>]
    /\ UNCHANGED << db0, calls, botVars >>

\* step k raises at its first request, before it has written anything
CommitRaise(k) ==
    /\ pc = k
    /\ frame' = OnException(frame, k)
    /\ pc' = AfterException(k)
    /\ last' = [op |-> "commit_raise", chat |-> frame.telegram_chat_id,
                analysis |-> << >>, questions |-> << >>]
    /\ UNCHANGED << db, db0, calls, botVars >>

NextCommit ==
    \/ \E chat \in Chats : CommitBegin(chat)
    \/ \E k \in DOMAIN CommitSteps : CommitRun(k)
    \/ \E k \in DOMAIN CommitSteps : CommitRaise(k)

SpecCommit == InitCommit /\ [][NextCommit]_vars

\* ----------------------------------------- the engagement of a restaurant
\* the restaurant's onboarding was committed (restaurant 1), and its user
\* now talks to the restaurant-facing agent, which answers drip questions
\* and saves preference corrections; a new session is counted
EngagementPhotos == << "I1" >>

\* the store a commit in which no step raises leaves, the staged products
\* read in the given order
CommittedStore(d, order) ==
    RunCommit(1, d, NewCommitFrame(d, 1, 1), 0, order).db

\* the sessions counted and the corrections saved (with a reason, without
\* one) before the first drip question is answered
EarlierSessions == { 0, 3, MaxSessions }
EarlierCorrections == { << 0, 0 >>, << 1, 1 >>, << MaxCorrections, 0 >> }

\* the store after n counted sessions, and after corrections saved with and
\* without a reason (a store without a profile has nothing to count)
RECURSIVE AfterSessions(_, _)
AfterSessions(d, n) ==
    IF n = 0 \/ FindProfile(d, 1) = NULL THEN d
    ELSE AfterSessions(increment_session_count(d, 1), n - 1)

RECURSIVE AfterCorrections(_, _, _)
AfterCorrections(d, with_reason, without_reason) ==
    IF FindProfile(d, 1) = NULL THEN d
    ELSE IF with_reason > 0
    THEN AfterCorrections(
             save_preference_correction(d, 1, "", "brand", "Friboi", "preco"),
             with_reason - 1, without_reason)
    ELSE IF without_reason > 0
    THEN AfterCorrections(
             save_preference_correction(d, 1, "", "brand", "Friboi", ""),
             with_reason, without_reason - 1)
    ELSE d

InitEngagement ==
    /\ \E choice \in 1..3, n \in EarlierSessions, c \in EarlierCorrections :
       \E s \in StagedAfterAnalysis(EngagementPhotos) :
       \E order \in get_staged_products(s.db, 1) :
          db = AfterCorrections(
                   AfterSessions(
                       CommittedStore(
                           save_engagement_choice(s.db, s.context, choice).db,
                           order), n),
                   c[1], c[2])
    /\ sessions = [c \in Chats |-> NULL]
    /\ heap = [r \in Refs |-> NewUserSession]
    /\ handled = 0
    /\ last = [op |-> "none", chat |-> NULL, analysis |-> << >>, questions |-> << >>]
    /\ pc = 0
    /\ frame = IdleFrame
    /\ db0 = EmptyDb
    /\ calls = 0

\* the inputs of the restaurant-facing tools: the restaurant of the
\* conversation (NULL: none linked), a product name (Feijao is in no
\* catalog), a preference type, a value ("" for none), a reason
EngagementRestaurants == { NULL, 1 }
SearchedNames == { "Picanha", "Feijao" }
PreferenceTypes == { "brand", "supplier" }
PreferenceValues == { "", "Friboi" }
Reasons == { "", "preco" }

\* one operation of the restaurant-facing agent: the store goes from db to
\* one of `outcomes`
EngagementOp(op, restaurant_id, outcomes) ==
    /\ handled < MaxEngagementOps
    /\ db' \in outcomes
    /\ handled' = handled + 1
    /\ last' = [op |-> op, chat |-> restaurant_id, analysis |-> << >>, questions |-> << >>]
    /\ UNCHANGED << sessions, heap, commitVars >>

AnswerDripQuestion(restaurant_id, product_name, preference_type, value, skip) ==
    EngagementOp("answer_drip_question", restaurant_id,
                 answer_drip_question(db, restaurant_id, product_name,
                                      preference_type, value, skip))

SavePreferenceCorrection(restaurant_id, product_name, preference_type, reason) ==
    EngagementOp("save_preference_correction", restaurant_id,
                 { save_preference_correction(db, restaurant_id, product_name,
                                              preference_type, "Friboi", reason) })

IncrementSessionCount(restaurant_id) ==
    /\ restaurant_id # NULL
    /\ EngagementOp("increment_session_count", restaurant_id,
                    { increment_session_count(db, restaurant_id) })

NextEngagement ==
    \/ \E restaurant_id \in EngagementRestaurants,
          product_name \in SearchedNames,
          preference_type \in PreferenceTypes,
          value \in PreferenceValues, skip \in BOOLEAN :
          AnswerDripQuestion(restaurant_id, product_name, preference_type,
                             value, skip)
    \/ \E restaurant_id \in EngagementRestaurants,
          product_name \in SearchedNames \cup { "" },
          preference_type \in PreferenceTypes, reason \in Reasons :
          SavePreferenceCorrection(restaurant_id, product_name,
                                   preference_type, reason)
    \/ \E restaurant_id \in EngagementRestaurants :
          IncrementSessionCount(restaurant_id)

SpecEngagement == InitEngagement /\ [][NextEngagement]_vars

\* ------------------------------------------------- the drip of a restaurant
\* the restaurant's onboarding was committed with three products; its queue
\* is the one _populate_preference_queue writes for staged products that
\* carry a tier each; every message to the restaurant-facing agent ends
\* with get_drip_questions, and the user answers or skips questions
DripPhotos == << "I1", "I3" >>

\* the tiers of the staged products, in the order of the queue
DripTiers ==
    { << "head", "head", "head" >>, << "head", "mid_tail", "head" >>,
      << "mid_tail", "head", "long_tail" >> }

\* the committed store d with its queue written again from the staged
\* products `order`, the k-th of them carrying tiers[k]
TieredQueue(d, order, tiers) ==
    populate_preference_queue(
        [d EXCEPT !["preference_collection_queue"] = << >>],
        [k \in DOMAIN order |->
           [row_to_staged_product(d, order[k]) EXCEPT
               !.importance_tier = tiers[k]]],
        1,
        [i \in DOMAIN d["onboarding_staging_products"] |->
           d["onboarding_staging_products"][i].committed_master_list_id])

InitDrip ==
    /\ \E choice \in 2..3, c \in { 0, MaxCorrections }, tiers \in DripTiers :
       \E s \in StagedAfterAnalysis(DripPhotos) :
       \E order \in get_staged_products(s.db, 1) :
          db = AfterCorrections(
                   TieredQueue(
                       CommittedStore(
                           save_engagement_choice(s.db, s.context, choice).db,
                           order),
                       order, tiers),
                   c, 0)
    /\ sessions = [c \in Chats |-> NULL]
    /\ heap = [r \in Refs |-> NewUserSession]
    /\ handled = 0
    /\ last = [op |-> "none", chat |-> NULL, analysis |-> << >>, questions |-> << >>]
    /\ pc = 0
    /\ frame = IdleFrame
    /\ db0 = EmptyDb
    /\ calls = 0

\* FrepiAgent.process_message, "Append drip questions if applicable"
GetDripQuestions(restaurant_id) ==
    /\ restaurant_id # NULL
    /\ handled < MaxEngagementOps
    /\ \E out \in get_drip_questions(db, restaurant_id) :
          /\ db' = out.db
          /\ last' = [op |-> "get_drip_questions", chat |-> restaurant_id,
                      analysis |-> << >>, questions |-> out.questions]
    /\ handled' = handled + 1
    /\ UNCHANGED << sessions, heap, commitVars >>

DripNames == { "Picanha", "Farinha", "Frango" }

NextDrip ==
    \/ \E product_name \in DripNames, skip \in BOOLEAN :
          AnswerDripQuestion(1, product_name, "brand", "Friboi", skip)
    \/ GetDripQuestions(1)

SpecDrip == InitDrip /\ [][NextDrip]_vars

\* ------------------------------------- the drip with a user who answers
\* The user answers, in the next message, every question the last message
\* ended with: FrepiAgent.process_message runs one answer_drip_question
\* tool call per question and then appends the next drip questions.
AnswerValues == { "Friboi", "Seara" }

\* the stores the answers to `questions` may leave, one after the other
RECURSIVE AnswerQuestions(_, _, _, _)
AnswerQuestions(d, restaurant_id, questions, value) ==
    IF questions = << >> \/ DOMAIN d = {} THEN { d }
    ELSE UNION { AnswerQuestions(d1, restaurant_id, Tail(questions), value) :
                 d1 \in answer_drip_question(d, restaurant_id,
                            Head(questions).product_name,
                            Head(questions).preference_type, value, FALSE) }

\* one message of the restaurant's user; last.questions are the questions
\* the reply ends with
AnsweringMessage(restaurant_id, value) ==
    /\ \E answered \in AnswerQuestions(db, restaurant_id, last.questions,
                                        value) :
       \E out \in get_drip_questions(answered, restaurant_id) :
          /\ db' = out.db
          /\ last' = [op |-> "answering_message", chat |-> restaurant_id,
                      analysis |-> << >>, questions |-> out.questions]
    /\ UNCHANGED << sessions, heap, handled, commitVars >>

\* A committed profile starts below medium, and the first recalculation is
\* the one of a drip response: the restaurant of InitDrip after its user
\* stated the brand of one product without being asked.
InitDripAnswered ==
    /\ \E choice \in 2..3, c \in { 0, MaxCorrections }, tiers \in DripTiers :
       \E s \in StagedAfterAnalysis(DripPhotos) :
       \E order \in get_staged_products(s.db, 1) :
       \E product_name \in DripNames :
          db \in answer_drip_question(
                    AfterCorrections(
                        TieredQueue(
                            CommittedStore(
                                save_engagement_choice(s.db, s.context,
                                                       choice).db,
                                order),
                            order, tiers),
                        c, 0),
                    1, product_name, "brand", "Friboi", FALSE)
    /\ sessions = [c \in Chats |-> NULL]
    /\ heap = [r \in Refs |-> NewUserSession]
    /\ handled = 0
    /\ last = [op |-> "answer_drip_question", chat |-> 1, analysis |-> << >>,
               questions |-> << >>]
    /\ pc = 0
    /\ frame = IdleFrame
    /\ db0 = EmptyDb
    /\ calls = 0

NextDripAnswered == \E value \in AnswerValues : AnsweringMessage(1, value)

\* the user keeps sending messages
SpecDripAnswered ==
    InitDripAnswered /\ [][NextDripAnswered]_vars /\ WF_vars(NextDripAnswered)

\* ------------------------------------------------------------ heartbeat jobs
\* services/heartbeat.py. The jobs read the clock: days are counted from the
\* day of the commit, whose prices carry effective_date "today" (the older
\* dates are those of the January 2024 invoices). A message the bot sends is
\* [chat_id, kind, body]; the scheduler was started with a bot
\* (init_heartbeat), so every message is sent.
\* config.price_freshness_days
price_freshness_days == 30

EffectiveDay(effective_date) ==
    IF effective_date = "today" THEN 0 ELSE 0 - 700

\* the keys of a dict filled by setdefault, in the order of first appearance
RECURSIVE RestaurantKeys(_, _)
RestaurantKeys(rids, seen) ==
    IF rids = << >> THEN seen
    ELSE LET rid == Head(rids)
         IN RestaurantKeys(Tail(rids),
                IF rid = NULL \/ \E i \in DOMAIN seen : seen[i] = rid
                THEN seen ELSE Append(seen, rid))

\* what the loops over the restaurants send, one restaurant after the other
RECURSIVE SentTo(_, _)
SentTo(rids, messages) ==
    IF rids = << >> THEN << >>
    ELSE messages[Head(rids)] \o SentTo(Tail(rids), messages)

\* _get_restaurant_chat_ids()[rid]: the chat ids of the restaurant's people
get_restaurant_chat_ids(d, rid) ==
    LET people == d["restaurant_people"]
        ids == SelectSeq(Ascending(DOMAIN people),
                         LAMBDA p : /\ people[p].restaurant_id = rid
                                    /\ people[p].whatsapp_number # "")
    IN [k \in DOMAIN ids |-> people[ids[k]].whatsapp_number]

\* one message to every chat of a restaurant (_send_telegram_message)
ToChats(chat_ids, kind, body) ==
    [k \in DOMAIN chat_ids |-> [chat_id |-> chat_ids[k], kind |-> kind,
                                body |-> body]]

\* _check_stale_prices: no committed price has an end_date, so every price is
\* current; the alert names the stale products of the restaurant (at most ten
\* of them, and no store here has more) and how many they are
check_stale_prices(d, now) ==
    LET pricing == d["pricing_history"]
        stale_smp_ids ==
            { pricing[p].supplier_mapped_product_id :
                p \in { q \in DOMAIN pricing :
                          now - EffectiveDay(pricing[q].effective_date)
                              > price_freshness_days } }
        smp_result == Ascending(DOMAIN d["supplier_mapped_products"]
                                    \cap stale_smp_ids)
        Listed(k) == d["supplier_mapped_products"][smp_result[k]].master_list_id
                         \in DOMAIN d["master_list"]
        ml(k) == d["master_list"][
                     d["supplier_mapped_products"][smp_result[k]].master_list_id]
        listed == SelectSeq(Ascending(DOMAIN smp_result), Listed)
        rids == RestaurantKeys([k \in DOMAIN listed |->
                                   ml(listed[k]).restaurant_id], << >>)
        products(rid) == { ml(listed[k]).product_name :
                             k \in { j \in DOMAIN listed :
                                       ml(listed[j]).restaurant_id = rid } }
        alerts == [rid \in { rids[k] : k \in DOMAIN rids } |->
                     ToChats(get_restaurant_chat_ids(d, rid), "stale_prices",
                             [count |-> Cardinality(products(rid)),
                              products |-> products(rid)])]
    IN [db |-> d, sent |-> SentTo(rids, alerts)]

\* _request_delivery_feedback: the delivered orders nobody rated, delivered
\* in the last 48 hours; at most three requests a restaurant
request_delivery_feedback(d, now) ==
    LET orders == d["purchase_orders"]
        orders_result ==
            SelectSeq(Ascending(DOMAIN orders),
                      LAMBDA o : /\ orders[o].status = "delivered"
                                 /\ orders[o].quality_rating = NULL
                                 /\ orders[o].delivered_at > now - 2)
        rids == RestaurantKeys([k \in DOMAIN orders_result |->
                                   orders[orders_result[k]].restaurant_id],
                               << >>)
        of(rid) == SelectSeq(orders_result,
                             LAMBDA o : orders[o].restaurant_id = rid)
        supplier_name(o) ==
            IF orders[o].supplier_id \in DOMAIN d["suppliers"]
            THEN d["suppliers"][orders[o].supplier_id].company_name
            ELSE "Fornecedor"
        Request(rid, k) ==
            ToChats(get_restaurant_chat_ids(d, rid), "delivery_feedback",
                    [order |-> of(rid)[k],
                     supplier_name |-> supplier_name(of(rid)[k])])
        requests == [rid \in { rids[k] : k \in DOMAIN rids } |->
                       SentTo(Ascending(1..Min(Len(of(rid)), 3)),
                              [k \in 1..Min(Len(of(rid)), 3) |->
                                  Request(rid, k)])]
    IN [db |-> d, sent |-> SentTo(rids, requests)]

\* _drip_preference_reminder: the first pending item of every restaurant is
\* sent and marked as sent. No code writes the priority of an item, so the
\* items are read in the order they were created in; none writes its
\* question_text, product_name or preference_type either, so the reminder
\* carries none.
RECURSIVE MarkSent(_, _, _)
MarkSent(d, items, now) ==
    IF items = << >> \/ DOMAIN d = {} THEN d
    ELSE MarkSent(UpdateId(d, "preference_collection_queue", Head(items),
                           [status |-> "sent", sent_at |-> now]),
                  Tail(items), now)

drip_preference_reminder(d, now) ==
    LET queue == d["preference_collection_queue"]
        pending == Ascending(SelectEq(d, "preference_collection_queue",
                                      "status", "pending"))
        queue_result == SubSeq(pending, 1, Min(Len(pending), 50))
        rids == RestaurantKeys([k \in DOMAIN queue_result |->
                                   queue[queue_result[k]].restaurant_id],
                               << >>)
        item(rid) == FirstOf({ i \in { queue_result[k] :
                                         k \in DOMAIN queue_result } :
                                 queue[i].restaurant_id = rid })
        asked == SelectSeq(rids, LAMBDA rid :
                                     get_restaurant_chat_ids(d, rid) # << >>)
        reminders == [rid \in { rids[k] : k \in DOMAIN rids } |->
                        ToChats(get_restaurant_chat_ids(d, rid),
                                "preference_reminder",
                                [question |-> "", product |-> "",
                                 preference_type |-> ""])]
    IN [db |-> MarkSent(d, [k \in DOMAIN asked |-> item(asked[k])], now),
        sent |-> SentTo(rids, reminders)]

\* the orders of the restaurant when the scheduler starts
HeartbeatOrders ==
    LET Order(status, quality_rating) ==
            [restaurant_id |-> 1, supplier_id |-> 1, status |-> status,
             quality_rating |-> quality_rating, delivered_at |-> 0]
    IN { << >>,
         << Order("delivered", NULL) >>,
         << Order("delivered", 5), Order("delivered", NULL) >>,
         << Order("confirmed", NULL), Order("delivered", NULL),
            Order("delivered", NULL) >> }

\* the days the jobs fire on: the day after the commit and a month later
HeartbeatDays == { 1, 31 }

HeartbeatPhotos == { << "I1" >>, << "I1", "I3" >>, << "I4" >> }

\* the committed store with the orders, and with the columns of the queue
\* that only the reminder writes: an item nobody sent yet has the status the
\* table gives it, "pending" or none
HeartbeatStore(d, orders, status) ==
    [d EXCEPT !["preference_collection_queue"] =
                  [k \in DOMAIN @ |->
                      [status |-> status, sent_at |-> NULL] @@ @[k]]]
        @@ ("purchase_orders" :> orders)

InitHeartbeat ==
    /\ \E photos \in HeartbeatPhotos, orders \in HeartbeatOrders,
          status \in { "pending", "" } :
       \E s \in StagedAfterAnalysis(photos) :
       \E order \in get_staged_products(s.db, 1) :
          db = HeartbeatStore(
                   CommittedStore(save_engagement_choice(s.db, s.context, 2).db,
                                  order),
                   orders, status)
    /\ sessions = [c \in Chats |-> NULL]
    /\ heap = [r \in Refs |-> NewUserSession]
    /\ handled = 0
    /\ last = [op |-> "none", chat |-> NULL, analysis |-> << >>,
               questions |-> << >>, sent |-> << >>, now |-> 0]
    /\ pc = 0
    /\ frame = IdleFrame
    /\ db0 = EmptyDb
    /\ calls = 0

\* what a firing leaves in last: the job, what it sent and the clock it read
JobRan(job, sent, now) ==
    [op |-> job, chat |-> NULL, analysis |-> << >>, questions |-> << >>,
     sent |-> sent, now |-> now]

\* the scheduler fires a job (init_heartbeat); the clock never goes back
CheckStalePrices(now) ==
    /\ handled < MaxHeartbeatRuns
    /\ now >= last.now
    /\ LET out == check_stale_prices(db, now)
       IN /\ db' = out.db
          /\ last' = JobRan("check_stale_prices", out.sent, now)
    /\ handled' = handled + 1
    /\ UNCHANGED << sessions, heap, commitVars >>

RequestDeliveryFeedback(now) ==
    /\ handled < MaxHeartbeatRuns
    /\ now >= last.now
    /\ LET out == request_delivery_feedback(db, now)
       IN /\ db' = out.db
          /\ last' = JobRan("request_delivery_feedback", out.sent, now)
    /\ handled' = handled + 1
    /\ UNCHANGED << sessions, heap, commitVars >>

DripPreferenceReminder(now) ==
    /\ handled < MaxHeartbeatRuns
    /\ now >= last.now
    /\ LET out == drip_preference_reminder(db, now)
       IN /\ db' = out.db
          /\ last' = JobRan("drip_preference_reminder", out.sent, now)
    /\ handled' = handled + 1
    /\ UNCHANGED << sessions, heap, commitVars >>

NextHeartbeat ==
    \E now \in HeartbeatDays :
        \/ CheckStalePrices(now)
        \/ RequestDeliveryFeedback(now)
        \/ DripPreferenceReminder(now)

SpecHeartbeat == InitHeartbeat /\ [][NextHeartbeat]_vars

\* ------------------------------------------------------- brand preferences
\* Chat 1 has staged two variants of one base product, each with a brand and
\* with as many purchases (price records) as the frequency says, and has run
\* the analysis once, which stored the frequencies; the model runs the
\* analysis again. No tool stages a brand (agent.py line 690), so the
\* brands are put on the rows here.
BrandFrequencies == { 1, 3, 4, 5, 6, 7 }

RECURSIVE StagePurchases(_, _, _)
StagePurchases(d, product_id, n) ==
    IF n = 0 \/ DOMAIN d = {} THEN d
    ELSE StagePurchases(
             stage_price(d, 1, [staging_product_id |-> product_id,
                                staging_supplier_id |-> NULL,
                                unit_price |-> 10,
                                quantity_purchased |-> 1,
                                total_line_amount |-> 10,
                                invoice_date |-> "",
                                invoice_number |-> "N1"]),
             product_id, n - 1)

BrandedStaging(frequency_a, frequency_b, brand_b) ==
    LET info == StagedAfterInfo(<< >>)
        a == NextId(info.db, "onboarding_staging_products")
        staged == stage_product(
                      stage_product(info.db, 1, "Arroz Branco Camil", NULL),
                      1, "Arroz Branco Tio Joao", NULL)
        branded == UpdateId(
                       UpdateId(staged, "onboarding_staging_products", a,
                                [brand |-> "Camil"]),
                       "onboarding_staging_products", a + 1,
                       [brand |-> brand_b])
    IN [db |-> StagePurchases(StagePurchases(branded, a, frequency_a),
                              a + 1, frequency_b),
        context |-> info.context]

BrandAnalysed(frequency_a, frequency_b, brand_b) ==
    LET staged == BrandedStaging(frequency_a, frequency_b, brand_b)
    IN { [db |-> update_session_phase(out.db, 1, "analysis_complete"),
          context |-> staged.context] :
           out \in run_full_analysis(staged.db, 1) }

InitBrand ==
    /\ \E frequency_a \in BrandFrequencies, frequency_b \in BrandFrequencies,
          brand_b \in { "Tio Joao", "Camil" } :
       \E s \in BrandAnalysed(frequency_a, frequency_b, brand_b) :
          /\ db = s.db
          /\ heap = [r \in Refs |->
                       IF r = 1
                       THEN [OnboardingSession(1, << >>) EXCEPT
                               !.onboarding_context = s.context]
                       ELSE NewUserSession]
    /\ sessions = [c \in Chats |-> IF c = 1 THEN 1 ELSE NULL]
    /\ handled = 0
    /\ last = [op |-> "none", chat |-> NULL, analysis |-> << >>, questions |-> << >>]
    /\ pc = 0
    /\ frame = IdleFrame
    /\ db0 = EmptyDb
    /\ calls = 0

NextBrand == handled < MaxBrandRuns /\ RunAnalysis(1)

SpecBrand == InitBrand /\ [][NextBrand]_vars

\* --------------------------------------------------------- supplier matching
\* A session is open and production holds the suppliers of earlier
\* restaurants; suppliers read from invoices are staged into the session.
ProductionSuppliers ==
    LET Supplier(company_name, tax_number) ==
            [company_name |-> company_name, tax_number |-> tax_number,
             whatsapp_number |-> "", is_active |-> TRUE]
    IN { << >>,
         << Supplier("Marfrig", "111") >>,
         << Supplier("Marfrig SA", ""), Supplier("Friboi", "222") >>,
         << Supplier("Friboi", "111"), Supplier("Marfrig", "222") >> }

SupplierNames == { "Marfrig", "Friboi", "Atacadao" }
TaxNumbers == { "", "111", "222", "333" }

InitMatch ==
    /\ \E suppliers \in ProductionSuppliers :
          db = [StagedAfterInfo(<< >>).db EXCEPT !["suppliers"] = suppliers]
    /\ sessions = [c \in Chats |-> NULL]
    /\ heap = [r \in Refs |-> NewUserSession]
    /\ handled = 0
    /\ last = [op |-> "none", chat |-> NULL, analysis |-> << >>, questions |-> << >>]
    /\ pc = 0
    /\ frame = IdleFrame
    /\ db0 = EmptyDb
    /\ calls = 0

\* OnboardingStagingService.stage_supplier, called for a supplier read from
\* an invoice of session 1
StageSupplier(company_name, cnpj) ==
    /\ handled < MaxStagedSuppliers
    /\ db' = stage_supplier(db, 1, company_name, cnpj)
    /\ last' = [op |-> "stage_supplier", chat |-> 1, analysis |-> << >>,
                questions |-> << >>]
    /\ handled' = handled + 1
    /\ UNCHANGED << sessions, heap, commitVars >>

NextMatch ==
    \E company_name \in SupplierNames, cnpj \in TaxNumbers :
        StageSupplier(company_name, cnpj)

SpecMatch == InitMatch /\ [][NextMatch]_vars

\* ----------------------------------------------------------- supplier orders
\* supplier_facing_agent/tools/order_management.py. The orders are the rows
\* of purchase_orders; a supplier confirms or rejects an order by its
\* order_id.
AwaitingConfirmation == { "pending", "awaiting_confirmation", "submitted" }

\* select.eq(order_id).eq(supplier_id).limit(1)
FindOrder(d, supplier_id, order_id) ==
    FirstOf({ i \in DOMAIN d["purchase_orders"] :
                /\ d["purchase_orders"][i].order_id = order_id
                /\ d["purchase_orders"][i].supplier_id = supplier_id })

\* update_one(purchase_orders, {order_id}, data): every row of that order_id
UpdateOrder(d, order_id, upd) ==
    UpdateIds(d, "purchase_orders",
              { i \in DOMAIN d["purchase_orders"] :
                  d["purchase_orders"][i].order_id = order_id },
              upd)

\* confirm_order: the store and the success of the result
confirm_order(d, supplier_id, order_id) ==
    LET order == FindOrder(d, supplier_id, order_id)
    IN IF order = NULL THEN [db |-> d, success |-> FALSE]
       ELSE IF d["purchase_orders"][order].order_status
                   \notin AwaitingConfirmation
       THEN [db |-> d, success |-> FALSE]
       ELSE [db |-> UpdateOrder(d, order_id,
                                [order_status |-> "confirmed",
                                 fulfillment_status |-> "processing"]),
             success |-> TRUE]

\* reject_order: the store and the success of the result
reject_order(d, supplier_id, order_id) ==
    LET order == FindOrder(d, supplier_id, order_id)
    IN IF order = NULL THEN [db |-> d, success |-> FALSE]
       ELSE [db |-> UpdateOrder(d, order_id,
                                [order_status |-> "rejected",
                                 fulfillment_status |-> "cancelled"]),
             success |-> TRUE]

OrderStatuses == AwaitingConfirmation \cup { "confirmed", "rejected", "delivered" }
OrderIds == { "PO1", "PO2", "PO9" }
OrderSuppliers == { 1, 2 }

\* two orders, each placed with one of the suppliers and in any status
InitOrders ==
    /\ \E s1 \in OrderSuppliers, s2 \in OrderSuppliers,
          st1 \in OrderStatuses, st2 \in OrderStatuses :
          db = EmptyDb @@ ("purchase_orders" :>
                 << [order_id |-> "PO1", supplier_id |-> s1, restaurant_id |-> 1,
                     order_status |-> st1, fulfillment_status |-> ""],
                    [order_id |-> "PO2", supplier_id |-> s2, restaurant_id |-> 1,
                     order_status |-> st2, fulfillment_status |-> ""] >>)
    /\ sessions = [c \in Chats |-> NULL]
    /\ heap = [r \in Refs |-> NewUserSession]
    /\ handled = 0
    /\ last = [op |-> "none", chat |-> NULL, analysis |-> << >>, questions |-> << >>]
    /\ pc = 0
    /\ frame = IdleFrame
    /\ db0 = EmptyDb
    /\ calls = 0

\* the order confirmation subagent calls the tool for its supplier; last
\* keeps the supplier (chat), the order id and the success it reported
ConfirmOrder(supplier_id, order_id) ==
    /\ handled < MaxOrderCalls
    /\ LET out == confirm_order(db, supplier_id, order_id)
       IN /\ db' = out.db
          /\ last' = [op |-> "confirm_order", chat |-> supplier_id,
                      analysis |-> << [order_id |-> order_id,
                                       success |-> out.success] >>,
                      questions |-> << >>]
    /\ handled' = handled + 1
    /\ UNCHANGED << sessions, heap, commitVars >>

RejectOrder(supplier_id, order_id) ==
    /\ handled < MaxOrderCalls
    /\ LET out == reject_order(db, supplier_id, order_id)
       IN /\ db' = out.db
          /\ last' = [op |-> "reject_order", chat |-> supplier_id,
                      analysis |-> << [order_id |-> order_id,
                                       success |-> out.success] >>,
                      questions |-> << >>]
    /\ handled' = handled + 1
    /\ UNCHANGED << sessions, heap, commitVars >>

NextOrders ==
    \E supplier_id \in OrderSuppliers, order_id \in OrderIds :
        \/ ConfirmOrder(supplier_id, order_id)
        \/ RejectOrder(supplier_id, order_id)

SpecOrders == InitOrders /\ [][NextOrders]_vars

\* ------------------------------------------- the stored conversations
\* A message of context.messages: its role, the ids of the tool calls an
\* assistant message carries and the id a tool message answers. The id of a
\* tool call is the one the API gave it, unique in the conversation.
ChatMessage(role) == [role |-> role, tool_calls |-> << >>, tool_call_id |-> NULL]

ToolCallId(messages, k) == 10 * (Len(messages) + 1) + k

\* tool_call.function.arguments as the model wrote them: a JSON object, or
\* text cut off before the object closed
ToolArguments == { "{}", "{" }

\* json.loads of the arguments
JsonLoadsRaises(arguments) == arguments # "{}"

\* the tool calls a response may carry: the arguments of each, in order
ToolCallLists ==
    { << >> } \cup { << a >> : a \in ToolArguments }
              \cup { << a, b >> : a, b \in ToolArguments }

\* client.chat.completions.create: the request raises, or a response comes
\* back with its tool calls; past MaxToolRounds the model answers in text
Completions(rounds) ==
    { [raised |-> TRUE, tool_calls |-> << >>] }
      \cup { [raised |-> FALSE, tool_calls |-> tool_calls] :
               tool_calls \in IF rounds > 0 THEN ToolCallLists ELSE { << >> } }

\* the assistant message with the tool calls of a response
AssistantWithCalls(messages, tool_calls) ==
    [role |-> "assistant",
     tool_calls |-> [k \in DOMAIN tool_calls |-> ToolCallId(messages, k)],
     tool_call_id |-> NULL]

\* the loop over the tool calls: the arguments of each are parsed, the tool
\* is executed (_execute_tool returns a dict whatever happens inside) and a
\* tool message is appended; arguments that do not parse raise at that call
RECURSIVE ExecuteCalls(_, _, _, _)
ExecuteCalls(messages, ids, tool_calls, k) ==
    IF k > Len(tool_calls) THEN [messages |-> messages, raised |-> FALSE]
    ELSE IF JsonLoadsRaises(tool_calls[k])
    THEN [messages |-> messages, raised |-> TRUE]
    ELSE ExecuteCalls(Append(messages,
                             [role |-> "tool", tool_calls |-> << >>,
                              tool_call_id |-> ids[k]]),
                      ids, tool_calls, k + 1)

\* process_message after the user message is appended: the first request,
\* the tool-call loop and the final assistant message; every outcome, each
\* with the messages stored when the call ends and whether it raised
RECURSIVE ToolLoop(_, _)
ToolLoop(messages, rounds) ==
    UNION { IF response.raised
            THEN { [messages |-> messages, raised |-> TRUE] }
            ELSE IF response.tool_calls = << >>
            THEN { [messages |-> Append(messages, ChatMessage("assistant")),
                    raised |-> FALSE] }
            ELSE LET assistant_message ==
                         AssistantWithCalls(messages, response.tool_calls)
                     executed ==
                         ExecuteCalls(Append(messages, assistant_message),
                                      assistant_message.tool_calls,
                                      response.tool_calls, 1)
                 IN IF executed.raised THEN { executed }
                    ELSE ToolLoop(executed.messages, rounds - 1) :
            response \in Completions(rounds) }

\* process_message of either agent: the system prompt on the first message,
\* the user message, then the loop
process_message(messages) ==
    ToolLoop(Append(IF messages = << >> THEN << ChatMessage("system") >>
                    ELSE messages,
                    ChatMessage("user")),
             MaxToolRounds)

\* chat 1 is in onboarding and chat 2 talks to the main agent; here the
\* contexts keep the list of messages itself
InitConversation ==
    /\ db = EmptyDb
    /\ sessions = [c \in Chats |-> c]
    /\ heap = [r \in Refs |->
                IF r = 1
                THEN [OnboardingSession(1, << >>) EXCEPT
                        !.onboarding_context =
                            [messages |-> << >>] @@ @]
                ELSE [NewUserSession EXCEPT
                        !.user_type = "restaurant",
                        !.restaurant_context.messages = << >>]]
    /\ handled = 0
    /\ last = [op |-> "none", chat |-> NULL, analysis |-> << >>,
               questions |-> << >>]
    /\ pc = 0
    /\ frame = IdleFrame
    /\ db0 = EmptyDb
    /\ calls = 0

\* OnboardingAgent.process_message: an exception is caught and the error
\* reply returned; last.analysis keeps which reply the call ended in
OnboardingProcessMessage(chat) ==
    /\ sessions[chat] # NULL
    /\ heap[sessions[chat]].needs_onboarding
    /\ \E out \in process_message(
                     heap[sessions[chat]].onboarding_context.messages) :
          /\ Len(out.messages) <= MaxMessages
          /\ heap' = [heap EXCEPT
                        ![sessions[chat]].onboarding_context.messages =
                            out.messages]
          /\ last' = [op |-> "onboarding_message", chat |-> chat,
                      analysis |-> << [error_reply |-> out.raised] >>,
                      questions |-> << >>]
    /\ UNCHANGED << db, sessions, handled, commitVars >>

\* FrepiAgent.process_message: an exception leaves the method, the messages
\* appended so far stay in the context
FrepiProcessMessage(chat) ==
    /\ sessions[chat] # NULL
    /\ ~heap[sessions[chat]].needs_onboarding
    /\ \E out \in process_message(
                     heap[sessions[chat]].restaurant_context.messages) :
          /\ Len(out.messages) <= MaxMessages
          /\ heap' = [heap EXCEPT
                        ![sessions[chat]].restaurant_context.messages =
                            out.messages]
          /\ last' = [op |-> "restaurant_message", chat |-> chat,
                      analysis |-> << [error_reply |-> out.raised] >>,
                      questions |-> << >>]
    /\ UNCHANGED << db, sessions, handled, commitVars >>

NextConversation ==
    \E chat \in Chats :
       \/ OnboardingProcessMessage(chat)
       \/ FrepiProcessMessage(chat)

SpecConversation == InitConversation /\ [][NextConversation]_vars

\* --------------------------------- preference corrections, step by step
\* Every chat of restaurant 1 is served by a process of its own (the bot,
\* the command-line chat) on the one store. A correction handler reads the
\* profile's counters in one request and writes them in another; here pc
\* maps a chat to the position of its handler and frame to what the
\* handler holds between the two requests.
InitCorrections ==
    /\ \E c \in EarlierCorrections :
       \E s \in StagedAfterAnalysis(EngagementPhotos) :
       \E order \in get_staged_products(s.db, 1) :
          db = AfterCorrections(
                   CommittedStore(
                       save_engagement_choice(s.db, s.context, 1).db, order),
                   c[1], c[2])
    /\ sessions = [c \in Chats |-> NULL]
    /\ heap = [r \in Refs |-> NewUserSession]
    /\ handled = 0
    /\ last = [op |-> "none", chat |-> NULL, analysis |-> << >>,
               questions |-> << >>]
    /\ pc = [c \in Chats |-> "idle"]
    /\ frame = [c \in Chats |-> [reason |-> "", profile |-> << >>]]
    /\ db0 = EmptyDb
    /\ calls = 0

\* the handler of `chat` starts: the correction is recorded and the
\* counters are read
CorrectionRead(chat, product_name, reason) ==
    /\ pc[chat] = "idle"
    /\ handled < MaxCorrectionCalls
    /\ LET recorded == RecordCorrection(db, 1, product_name, "brand",
                                        "Friboi", reason)
       IN /\ db' = recorded
          /\ frame' = [frame EXCEPT ![chat] =
                          [reason |-> reason,
                           profile |-> ReadCorrectionCounters(recorded, 1)]]
    /\ pc' = [pc EXCEPT ![chat] = "update"]
    /\ handled' = handled + 1
    /\ last' = [op |-> "correction_read", chat |-> chat,
                analysis |-> << >>, questions |-> << >>]
    /\ UNCHANGED << sessions, heap, db0, calls >>

\* the handler of `chat` writes the counters it computed and returns
CorrectionWrite(chat) ==
    /\ pc[chat] = "update"
    /\ db' = WriteCorrectionCounters(db, 1, frame[chat].profile,
                                     frame[chat].reason)
    /\ pc' = [pc EXCEPT ![chat] = "idle"]
    /\ frame' = [frame EXCEPT ![chat] = [reason |-> "", profile |-> << >>]]
    /\ last' = [op |-> "correction_write", chat |-> chat,
                analysis |-> << >>, questions |-> << >>]
    /\ UNCHANGED << sessions, heap, handled, db0, calls >>

NextCorrections ==
    \E chat \in Chats :
       \/ \E product_name \in { "", "Picanha" }, reason \in Reasons :
             CorrectionRead(chat, product_name, reason)
       \/ CorrectionWrite(chat)

SpecCorrections == InitCorrections /\ [][NextCorrections]_vars

\* -------------------------------------------------------------- properties
\* the production tables in which a repeated commit would leave duplicates
DuplicableTables ==
    { "suppliers", "master_list", "supplier_mapped_products",
      "restaurant_product_preferences" }

\* the in_progress sessions of a chat
ActiveSessions(d, chat) ==
    { i \in SelectEq(d, "onboarding_sessions", "telegram_chat_id", chat) :
        d["onboarding_sessions"][i].status = "in_progress" }

\* C1: a commit_onboarding call on a session that an earlier call has
\* already committed, the staged data unchanged in between, adds no
\* supplier, catalog product, supplier-product mapping or product-preference
\* row
SecondCommitAddsNoRows ==
    [][ (pc \in DOMAIN CommitSteps /\ frame.session.status = "committed")
           => \A t \in DuplicableTables : Len(db'[t]) = Len(db[t]) ]_vars

\* C2: when a step of commit_onboarding raises, the call returns instead of
\* raising: its result has success false and the step's error appended to
\* errors, and the session still has the status it had when the call began
RaisedStepIsReported ==
    [][ last'.op = "commit_raise"
           => /\ pc' = 0
              /\ ~frame'.result.success
              /\ frame'.result.errors
                    = Append(frame.result.errors, CommitSteps[pc])
              /\ db'["onboarding_sessions"][frame.session_id].status
                    = frame.session.status ]_vars

\* a call that completed its first three steps and then raised
RaisedAfterSuppliers ==
    /\ last.op = "commit_raise"
    /\ pc = 0
    /\ Len(frame.completed) >= 3
    /\ Len(db["suppliers"]) > 0
    /\ frame.session.status = "in_progress"

\* C3: commit_onboarding is atomic: a call in which a step failed leaves
\* every production table as it was when the call began
FailedCommitLeavesNothing ==
    (pc = 0 /\ frame.result.errors # << >>)
       => \A t \in ProductionTables : db[t] = db0[t]

\* C4: the eleven steps run in their fixed order, each after the previous
\* one completed; once a step has failed the call writes nothing more; and
\* the session is marked committed, with the restaurant and person ids, only
\* by the last step after the ten before it completed
StepsRunInOrder ==
    /\ [](/\ frame.completed = SubSeq(CommitSteps, 1, Len(frame.completed))
          /\ pc \in DOMAIN CommitSteps => Len(frame.completed) = pc - 1)
    /\ [][ /\ db' # db
              => /\ pc \in DOMAIN CommitSteps
                 /\ frame.result.errors = << >>
                 /\ frame'.completed = Append(frame.completed, CommitSteps[pc])
           /\ \A sid \in DOMAIN db["onboarding_sessions"] :
                (/\ db'["onboarding_sessions"][sid].status = "committed"
                 /\ db'["onboarding_sessions"][sid]
                       # db["onboarding_sessions"][sid])
                => /\ pc = Len(CommitSteps)
                   /\ frame.session_id = sid
                   /\ Len(frame.completed) = Len(CommitSteps) - 1
                   /\ frame.restaurant_id # NULL
                   /\ frame.person_id # NULL
                   /\ db'["onboarding_sessions"][sid].committed_restaurant_id
                         = frame.restaurant_id
                   /\ db'["onboarding_sessions"][sid].committed_person_id
                         = frame.person_id ]_vars

\* a call that ran all eleven steps on a session with two products
CommittedAllSteps ==
    /\ pc = 0
    /\ frame.completed = CommitSteps
    /\ frame.result.success
    /\ db["onboarding_sessions"][frame.session_id].status = "committed"
    /\ Len(db["master_list"]) >= 2

\* C5: the stored phase of a session never moves to an earlier phase
PhaseNeverGoesBack ==
    [][ \A sid \in DOMAIN db["onboarding_sessions"] :
           PhaseRank(db'["onboarding_sessions"][sid].current_phase)
              >= PhaseRank(db["onboarding_sessions"][sid].current_phase) ]_vars

\* C6: a session holds at most one staged supplier per company name
OneStagedSupplierPerName ==
    \A i, j \in DOMAIN db["onboarding_staging_suppliers"] :
       (/\ i # j
        /\ db["onboarding_staging_suppliers"][i].session_id
              = db["onboarding_staging_suppliers"][j].session_id)
       => db["onboarding_staging_suppliers"][i].company_name
             # db["onboarding_staging_suppliers"][j].company_name

\* C7: get_or_create_session returns the chat's in_progress session when
\* there is one, leaving the table alone, and otherwise creates one and
\* returns its id; a chat never has more than one in_progress session
OneActiveSessionPerChat ==
    \A chat \in Chats :
       /\ Cardinality(ActiveSessions(db, chat)) <= 1
       /\ LET r == get_or_create_session(db, chat)
          IN IF ActiveSessions(db, chat) # {}
             THEN r.id \in ActiveSessions(db, chat) /\ r.db = db
             ELSE /\ r.id = Len(db["onboarding_sessions"]) + 1
                  /\ ActiveSessions(r.db, chat) = { r.id }
                  /\ \A t \in Tables \ { "onboarding_sessions" } :
                        r.db[t] = db[t]
                  /\ SubSeq(r.db["onboarding_sessions"], 1,
                            Len(db["onboarding_sessions"]))
                        = db["onboarding_sessions"]

\* the restaurant info saved again for a session that already has products
SavedAgainIntoSameSession ==
    /\ last.op = "save_restaurant_info"
    /\ Len(db["onboarding_sessions"]) = 1
    /\ Len(db["onboarding_staging_products"]) > 0
    /\ ActiveSessions(db, last.chat) = { 1 }

\* C8: a handler for one chat leaves every other chat's entry of the
\* session map, and the session object it refers to, as they were
ChatsAreIndependent ==
    [][ \A c \in Chats :
           last'.chat # c
              => /\ sessions'[c] = sessions[c]
                 /\ sessions[c] # NULL
                       => heap'[sessions[c]] = heap[sessions[c]] ]_vars

\* a photo handled for one chat while the other chat has a session of its
\* own in a different state
PhotoWhileOtherChatActive ==
    /\ last.op = "handle_photo"
    /\ \A c \in Chats : sessions[c] # NULL
    /\ heap[sessions[last.chat]].onboarding_context.uploaded_photos # << >>
    /\ \E c \in Chats \ { last.chat } :
          /\ sessions[c] # sessions[last.chat]
          /\ heap[sessions[c]].user_type # "unknown"

\* C9: a run of the analysis, on whatever store it finds, leaves every
\* production table as it was: it inserts, updates and deletes staging rows
\* only
AnalysisWritesNoProductionTable ==
    [][ (last'.op = "run_analysis" /\ handled' = handled + 1)
           => \A t \in ProductionTables : db'[t] = db[t] ]_vars

\* the analysis run, staging preferences and insights, on a store whose
\* production tables hold a committed restaurant
AnalysedAfterCommit ==
    /\ last.op = "run_analysis"
    /\ Len(db["restaurants"]) > 0
    /\ Len(db["master_list"]) > 0
    /\ Len(db["onboarding_staging_preferences"]) > 0
    /\ Len(db["onboarding_analysis_insights"]) > 0

\* C10: a second run of the analysis right after the first, the staged
\* products and prices unchanged, leaves every staged product with the
\* importance score and the tier the first run gave it
AnalysisTwiceSameScoresAndTiers ==
    [][ (/\ last.op = "run_analysis"
         /\ last'.op = "run_analysis"
         /\ last'.chat = last.chat)
           => \A i \in DOMAIN db["onboarding_staging_products"] :
                 /\ db'["onboarding_staging_products"][i].inferred_importance_score
                       = db["onboarding_staging_products"][i].inferred_importance_score
                 /\ db'["onboarding_staging_products"][i].importance_tier
                       = db["onboarding_staging_products"][i].importance_tier ]_vars

\* the number of rows of table t that belong to session session_id
SessionRowCount(d, t, session_id) ==
    Cardinality({ i \in DOMAIN d[t] : d[t][i].session_id = session_id })

\* C11: a second run of the analysis right after the first, the staged data
\* unchanged, leaves the number of staged preference rows and the number of
\* insight rows of every session as the first run left them
AnalysisTwiceSameRowCounts ==
    [][ (/\ last.op = "run_analysis"
         /\ last'.op = "run_analysis"
         /\ last'.chat = last.chat)
           => \A s \in DOMAIN db["onboarding_sessions"] :
                 /\ SessionRowCount(db', "onboarding_staging_preferences", s)
                       = SessionRowCount(db, "onboarding_staging_preferences", s)
                 /\ SessionRowCount(db', "onboarding_analysis_insights", s)
                       = SessionRowCount(db, "onboarding_analysis_insights", s) ]_vars

\* the staged products of supplier supplier_id in store d
ProductsOfSupplier(d, supplier_id) ==
    { i \in DOMAIN d["onboarding_staging_products"] :
        d["onboarding_staging_products"][i].staging_supplier_id = supplier_id }

\* the sum of f over the finite set S
RECURSIVE SumOver(_, _)
SumOver(S, f) ==
    IF S = {} THEN 0
    ELSE LET x == CHOOSE y \in S : TRUE
         IN f[x] + SumOver(S \ {x}, f)

\* C12: after the first analysis of a session, every staged supplier of the
\* session has as total spend the sum of the spend the run stored for its
\* products, and is ranked in every category the run gave its products
SuppliersReadProductAnalysis ==
    [][ (/\ last'.op = "run_analysis"
         /\ last'.analysis # << >>
         /\ ~db["onboarding_sessions"][last'.analysis[1].session_id]
                .analysis_completed)
           => \A s \in DOMAIN db'["onboarding_staging_suppliers"] :
                 db'["onboarding_staging_suppliers"][s].session_id
                     = last'.analysis[1].session_id
                 => /\ db'["onboarding_staging_suppliers"][s].total_spend
                         = SumOver(ProductsOfSupplier(db', s),
                              [i \in DOMAIN db'["onboarding_staging_products"] |->
                                 db'["onboarding_staging_products"][i].total_spend])
                    /\ \A i \in ProductsOfSupplier(db', s) :
                          db'["onboarding_staging_products"][i].inferred_category # ""
                          => \E r \in last'.analysis[1].supplier_rankings :
                                /\ r.supplier_id = s
                                /\ r.category
                                     = db'["onboarding_staging_products"][i]
                                           .inferred_category ]_vars

\* head before mid_tail before long_tail
TierRank(tier) ==
    CASE tier = "head" -> 1 [] tier = "mid_tail" -> 2 [] OTHER -> 3

\* C13: after an analysis, no product of the session is in a lower tier than
\* a product of the session with strictly smaller spend
TiersFollowSpend ==
    [][ (last'.op = "run_analysis" /\ last'.analysis # << >>)
           => \A i, j \in DOMAIN db'["onboarding_staging_products"] :
                LET p == db'["onboarding_staging_products"][i]
                    q == db'["onboarding_staging_products"][j]
                IN (/\ p.session_id = last'.analysis[1].session_id
                    /\ q.session_id = last'.analysis[1].session_id
                    /\ p.importance_tier # ""
                    /\ q.importance_tier # ""
                    /\ p.total_spend > q.total_spend)
                   => TierRank(p.importance_tier) <= TierRank(q.importance_tier) ]_vars

\* the staged products of session session_id in store d
ProductsOfSession(d, session_id) ==
    { i \in DOMAIN d["onboarding_staging_products"] :
        d["onboarding_staging_products"][i].session_id = session_id }

\* the stored spend of every staged product of store d
StoredSpend(d) ==
    [i \in DOMAIN d["onboarding_staging_products"] |->
       d["onboarding_staging_products"][i].total_spend]

\* some k products of P together hold at least 80% of total_spend; when any
\* k do, the k with the highest spend do
TopHoldsPareto(d, P, k, total_spend) ==
    \E S \in SUBSET P :
       /\ Cardinality(S) = k
       /\ SumOver(S, StoredSpend(d)) * 10 >= total_spend * 8

\* C14: pareto_product_count is the smallest k such that the k products of
\* the session with the highest spend hold at least 80% of the total spend,
\* and pareto_percentage is that k out of the product count, in percent
ParetoIsSmallestTopCount ==
    [][ (last'.op = "run_analysis" /\ last'.analysis # << >>)
           => LET r == last'.analysis[1]
                  P == ProductsOfSession(db', r.session_id)
              IN /\ TopHoldsPareto(db', P, r.pareto_product_count, r.total_spend)
                 /\ \A k \in 0..(r.pareto_product_count - 1) :
                       ~TopHoldsPareto(db', P, k, r.total_spend)
                 /\ r.pareto_percentage
                       = IF P = {} THEN 0
                         ELSE (r.pareto_product_count * 100) \div Cardinality(P) ]_vars

\* C15: an analysis of staged products with zero total spend completes with
\* the percentage-based outputs at their defaults: no product of the session
\* gets a spend share or a tier, the Pareto count and percentage are 0 and
\* no Pareto insight is emitted
ZeroSpendGivesDefaults ==
    [][ (/\ last'.op = "run_analysis"
         /\ last'.analysis # << >>
         /\ last'.analysis[1].total_spend = 0)
           => LET r == last'.analysis[1]
              IN /\ \A i \in ProductsOfSession(db', r.session_id) :
                       /\ db'["onboarding_staging_products"][i]
                              .spend_share_percentage = NULL
                       /\ db'["onboarding_staging_products"][i]
                              .importance_tier = ""
                 /\ r.pareto_product_count = 0
                 /\ r.pareto_percentage = 0
                 /\ \A k \in DOMAIN r.insights :
                       r.insights[k] # "pareto_analysis" ]_vars

\* C16: the queue row of a committed product carries the tier and the spend
\* share analysis stored for its staged product: a product tiered head or
\* mid_tail is queued as head or mid_tail
QueueCarriesTier ==
    \A q \in DOMAIN db["preference_collection_queue"] :
       \A i \in DOMAIN db["onboarding_staging_products"] :
          LET row == db["preference_collection_queue"][q]
              staged == db["onboarding_staging_products"][i]
          IN (/\ staged.committed_master_list_id = row.master_list_id
              /\ staged.importance_tier \in { "head", "mid_tail" })
             => /\ row.importance_tier = staged.importance_tier
                /\ row.spend_share_pct = staged.spend_share_percentage

\* C17: a price-history row committed for a staged price whose invoice date
\* was parsed has that invoice date as its effective date
CommittedPriceKeepsInvoiceDate ==
    \A h \in DOMAIN db["pricing_history"] :
       \A s \in DOMAIN db["onboarding_staging_prices"] :
          LET row == db["pricing_history"][h]
              staged == db["onboarding_staging_prices"][s]
          IN (/\ staged.invoice_date # ""
              /\ staged.staging_product_id # NULL
              /\ db["onboarding_staging_products"][staged.staging_product_id]
                     .committed_master_list_id = row.master_list_id)
             => row.effective_date = staged.invoice_date

\* C18: the product step of a commit inserts every unmatched staged product
\* for which the embedding step of the same commit generated an embedding
\* into the catalog together with that embedding
CommittedWithGeneratedEmbedding ==
    [][ (pc = 5 /\ pc' = 6)
           => \A i \in ProductsOfSession(db, frame.session_id) :
                 (/\ ~db0["onboarding_staging_products"][i].embedding_generated
                  /\ db["onboarding_staging_products"][i].embedding_generated
                  /\ db["onboarding_staging_products"][i].embedding_vector
                  /\ db["onboarding_staging_products"][i]
                         .matched_master_list_id = NULL)
                 => /\ db'["onboarding_staging_products"][i]
                           .committed_master_list_id
                          \in DOMAIN db'["master_list"]
                    /\ db'["master_list"]
                          [db'["onboarding_staging_products"][i]
                               .committed_master_list_id].embedding_vector_v2 ]_vars

\* C19: the engagement profile a commit creates has the depth of the
\* session's engagement choice (skip 0, top-5 5, top-10 10), and its level
\* and drip questions per session are those the engagement thresholds give
\* its stored score (a score of 0.0 is dormant)
CreatedProfileFollowsThresholds ==
    [][ (pc = 10 /\ pc' = 11)
           => \A p \in DOMAIN db'["engagement_profile"]
                       \ DOMAIN db["engagement_profile"] :
                 LET row == db'["engagement_profile"][p]
                     choice == db["onboarding_sessions"][frame.session_id]
                                   .engagement_choice
                 IN /\ row.onboarding_depth
                         = (CASE choice = 1 -> 5 [] choice = 2 -> 10
                              [] OTHER -> 0)
                    /\ row.engagement_level
                         = EngagementLevel(row.engagement_score)
                    /\ row.drip_questions_per_session
                         = DripPerSession(row.engagement_score) ]_vars

\* the profile rows of a restaurant
ProfilesOf(d, restaurant_id) ==
    { d["engagement_profile"][i] :
        i \in SelectEq(d, "engagement_profile", "restaurant_id", restaurant_id) }

\* every signal of the profile is 0: no onboarding depth, no drip question
\* answered, no correction, no session
AllSignalsZero(p) ==
    /\ p.onboarding_depth = 0
    /\ p.drip_questions_answered = 0
    /\ p.total_corrections = 0
    /\ p.sessions_last_30d = 0

\* every signal of the profile is 1: full onboarding depth, every drip
\* question answered, five corrections or more and all with a reason, ten
\* sessions or more
AllSignalsOne(p) ==
    /\ p.onboarding_depth = 10
    /\ p.drip_questions_answered > 0
    /\ p.drip_questions_skipped = 0
    /\ p.total_corrections >= 5
    /\ p.corrections_with_reason = p.total_corrections
    /\ p.sessions_last_30d >= 10

\* C20: a recalculation (the one that ends a recorded drip response) stores
\* a score within [0,1] and the level and drip questions per session of the
\* thresholds: high and 2 iff score >= 0.65, medium and 1 iff
\* 0.35 <= score < 0.65, low and 0 iff 0.10 <= score < 0.35, dormant and 0
\* otherwise; all signals 0 give 0.0 and dormant, all signals 1 give 1.0
\* and high
RecalculationFollowsThresholds ==
    [][ (/\ last'.op = "answer_drip_question"
         /\ db'["engagement_profile"] # db["engagement_profile"])
           => \A p \in ProfilesOf(db', last'.chat) :
                 /\ p.engagement_score \in 0..100
                 /\ p.engagement_level
                       \in { "high", "medium", "low", "dormant" }
                 /\ (p.engagement_level = "high" /\ p.drip_questions_per_session = 2)
                       <=> p.engagement_score >= 65
                 /\ (p.engagement_level = "medium" /\ p.drip_questions_per_session = 1)
                       <=> (p.engagement_score >= 35 /\ p.engagement_score < 65)
                 /\ (p.engagement_level = "low" /\ p.drip_questions_per_session = 0)
                       <=> (p.engagement_score >= 10 /\ p.engagement_score < 35)
                 /\ (p.engagement_level = "dormant" /\ p.drip_questions_per_session = 0)
                       <=> p.engagement_score < 10
                 /\ AllSignalsZero(p)
                       => (p.engagement_score = 0 /\ p.engagement_level = "dormant")
                 /\ AllSignalsOne(p)
                       => (p.engagement_score = 100 /\ p.engagement_level = "high") ]_vars

\* a drip answer has just been recorded for a profile with every signal at
\* 1, and the recalculation stored the full score
RecalculatedToFullScore ==
    /\ last.op = "answer_drip_question"
    /\ \E p \in ProfilesOf(db, last.chat) :
          /\ AllSignalsOne(p)
          /\ p.drip_questions_answered = 1
          /\ p.engagement_score = 100
          /\ p.engagement_level = "high"
          /\ p.drip_questions_per_session = 2

\* ------------------------------------------------------ the invoice photos
\* chat 1 has saved its restaurant and uploaded up to MaxParsedPhotos
\* photos, legible or not; the model calls process_invoice_photos
ParseUrls == PhotoUrls \cup { "badjson", "badfence", "list", "down" }

PhotoLists == UNION { [1..n -> ParseUrls] : n \in 0..MaxParsedPhotos }

InitParse ==
    /\ \E photos \in PhotoLists :
          /\ db = StagedAfterInfo(photos).db
          /\ heap = [r \in Refs |->
                       IF r = 1
                       THEN [OnboardingSession(1, photos) EXCEPT
                               !.onboarding_context =
                                   StagedAfterInfo(photos).context]
                       ELSE NewUserSession]
    /\ sessions = [c \in Chats |-> IF c = 1 THEN 1 ELSE NULL]
    /\ handled = 0
    /\ last = [op |-> "none", chat |-> NULL, analysis |-> << >>, questions |-> << >>]
    /\ pc = 0
    /\ frame = IdleFrame
    /\ db0 = EmptyDb
    /\ calls = 0

NextParse == ProcessInvoicePhotos(1)

SpecParse == InitParse /\ [][NextParse]_vars

\* ------------------------------------------------- the priority products
\* chat 1 has saved its restaurant, uploaded a long invoice and perhaps a
\* short one, processed them and run the analysis once; the model runs the
\* analysis again
PriorityPhotos ==
    { << url >> \o extra : url \in LongInvoices,
                           extra \in { << >>, << "I1" >>, << "I3" >> } }

\* the outcomes of the first analysis in which the store returned the
\* products, none of them scored yet, in the order they were staged
FirstAnalysed(photos) ==
    LET staged == StagedAfterPhotos(photos)
        fetched == [k \in DOMAIN staged.db["onboarding_staging_products"] |-> k]
    IN { [db |-> update_session_phase(
                     AnalysisRun(staged.db, 1, fetched, refreshed, top).db,
                     1, "analysis_complete"),
          context |-> staged.context] :
           refreshed \in RefreshOrders(staged.db, 1, fetched),
           top \in TopChoices(staged.db, 1, fetched) }

InitPriority ==
    /\ \E photos \in PriorityPhotos :
       \E s \in FirstAnalysed(photos) :
          /\ db = s.db
          /\ heap = [r \in Refs |->
                       IF r = 1
                       THEN [OnboardingSession(1, photos) EXCEPT
                               !.onboarding_context = s.context]
                       ELSE NewUserSession]
    /\ sessions = [c \in Chats |-> IF c = 1 THEN 1 ELSE NULL]
    /\ handled = 0
    /\ last = [op |-> "none", chat |-> NULL, analysis |-> << >>, questions |-> << >>]
    /\ pc = 0
    /\ frame = IdleFrame
    /\ db0 = EmptyDb
    /\ calls = 0

NextPriority == handled < MaxAnalysisRuns /\ RunAnalysis(1)

SpecPriority == InitPriority /\ [][NextPriority]_vars

\* C21: get_drip_questions returns at most as many queue items as the
\* profile's drip_questions_per_session; every returned item was pending or
\* asked_drip and of a tier allowed at the profile's level (head at medium,
\* head or mid_tail at high); the items come in ascending queue position;
\* every returned item is asked_drip afterwards; at low or dormant nothing
\* is returned and no queue row changes
DripQuestionsFollowBudgetAndTier ==
    [][ last'.op = "get_drip_questions"
          => \A p \in ProfilesOf(db, last'.chat) :
               LET queue == db["preference_collection_queue"]
                   questions == last'.questions
               IN /\ Len(questions) <= p.drip_questions_per_session
                  /\ \A k \in DOMAIN questions :
                        /\ questions[k].queue_id \in DOMAIN queue
                        /\ queue[questions[k].queue_id].restaurant_id = last'.chat
                        /\ queue[questions[k].queue_id].preference_status
                              \in { "pending", "asked_drip" }
                        /\ queue[questions[k].queue_id].importance_tier
                              \in (CASE p.engagement_level = "high"
                                           -> { "head", "mid_tail" }
                                      [] p.engagement_level = "medium"
                                           -> { "head" }
                                      [] OTHER -> {})
                        /\ db'["preference_collection_queue"]
                              [questions[k].queue_id].preference_status
                              = "asked_drip"
                  /\ \A k \in DOMAIN questions : \A m \in DOMAIN questions :
                        k < m => queue[questions[k].queue_id].queue_position
                                   <= queue[questions[m].queue_id].queue_position
                  /\ p.engagement_level \in { "low", "dormant" }
                        => /\ questions = << >>
                           /\ db'["preference_collection_queue"] = queue ]_vars

\* a message to a highly engaged restaurant has just ended with two drip
\* questions, one of them about a mid_tail product, both now asked_drip
TwoQuestionsAskedAtHigh ==
    /\ last.op = "get_drip_questions"
    /\ Len(last.questions) = 2
    /\ \E p \in ProfilesOf(db, last.chat) :
          p.engagement_level = "high" /\ p.drip_questions_per_session = 2
    /\ \E k \in DOMAIN last.questions :
          last.questions[k].importance_tier = "mid_tail"
    /\ \A k \in DOMAIN last.questions :
          db["preference_collection_queue"][last.questions[k].queue_id]
              .preference_status = "asked_drip"

CommitOnlyAfterConfirmation ==
    [][ /\ (\E t \in ProductionTables : Len(db'[t]) > Len(db[t]))
            => /\ last'.op = "confirm_and_commit_onboarding"
               /\ ContextOf(last'.chat).staging_session_id # NULL
               /\ ConfirmAndCommitOnboarding(last'.chat, TRUE)
        /\ \A chat \in Chats, user_confirmed \in BOOLEAN :
             (/\ last'.op = "confirm_and_commit_onboarding"
              /\ last'.chat = chat
              /\ ~user_confirmed \/ ContextOf(chat).staging_session_id = NULL
              /\ ConfirmAndCommitOnboarding(chat, user_confirmed))
               => \A t \in ProductionTables : db'[t] = db[t] ]_vars

\* the user confirmed and the commit has written the restaurant and its
\* products
CommittedAfterConfirmation ==
    /\ last.op = "confirm_and_commit_onboarding"
    /\ db["restaurants"] # << >>
    /\ db["master_list"] # << >>
    /\ \E i \in DOMAIN db["onboarding_sessions"] :
          db["onboarding_sessions"][i].status = "committed"

\* C24: a chat's onboarding is marked complete (onboarding_complete true,
\* the chat routed to the main restaurant agent) only after
\* confirm_and_commit_onboarding has committed a session of the chat
CompleteOnlyAfterCommit ==
    \A chat \in Chats :
       (/\ sessions[chat] # NULL
        /\ heap[sessions[chat]].onboarding_context.onboarding_complete)
          => \E i \in DOMAIN db["onboarding_sessions"] :
                /\ db["onboarding_sessions"][i].telegram_chat_id = chat
                /\ db["onboarding_sessions"][i].status = "committed"

\* C25: parse_multiple_invoices returns the invoices of the legible photos
\* and only those, in upload order; a photo answered with malformed JSON,
\* fenced or not, or whose call failed gives a sentinel that is left out and
\* does not stop the photos after it from being parsed
ParsedInUploadOrder ==
    LET photos == heap[sessions[1]].onboarding_context.uploaded_photos
        legible == SelectSeq(photos, LAMBDA u : u \in { "I1", "I2", "I3", "I4" })
    IN /\ parse_multiple_invoices(photos)
            = [k \in DOMAIN legible |-> InvoiceData(legible[k])]
       /\ \A u \in ParseUrls \ { "I1", "I2", "I3", "I4" } :
             /\ parse_invoice_image(u).supplier_name \in { "Error", "Parse Error" }
             /\ parse_invoice_image(u).confidence_score = 0

\* the photos were a fenced malformed answer, a failed call and then a
\* legible fenced invoice, and processing staged the product of that invoice
ParsedAfterTwoFailures ==
    /\ last.op = "process_invoice_photos"
    /\ heap[sessions[1]].onboarding_context.uploaded_photos
          = << "badjson", "down", "I2" >>
    /\ heap[sessions[1]].onboarding_context.products_list = << "Arroz" >>
    /\ Len(db["onboarding_staging_products"]) = 1

\* C26: after the invoice photos are processed the session has one photo
\* row per uploaded image, in upload order, each with the URL of the image at
\* that index and, where an outcome is recorded, the outcome of parsing it
OnePhotoRowPerUpload ==
    LET context == heap[sessions[1]].onboarding_context
        photos == context.uploaded_photos
        rows == get_invoice_photos(db, context.staging_session_id)
    IN (/\ last.op = "process_invoice_photos"
        /\ handled = 1
        /\ context.products_list # << >>)
         => /\ Len(rows) = Len(photos)
            /\ \A k \in DOMAIN rows :
                 LET row == db["onboarding_invoice_photos"][rows[k]]
                 IN /\ row.photo_index = k - 1
                    /\ k \in DOMAIN photos => row.telegram_file_url = photos[k]
                    /\ row.parsing_success # NULL
                         => (row.parsing_success
                               <=> photos[k] \in { "I1", "I2", "I3", "I4" })

\* the staged products of a session, and those of them flagged as priority
StagedOf(d, session_id) ==
    SelectEq(d, "onboarding_staging_products", "session_id", session_id)

FlaggedOf(d, session_id) ==
    { i \in StagedOf(d, session_id) :
        d["onboarding_staging_products"][i].is_priority }

\* C27: set_priority_products leaves flagged exactly the first 10 products
\* of the list it is given, the k-th with rank k, and every other product of
\* the session without flag and rank, whatever was flagged before; after an
\* analysis run the flagged products of the session are min(10, n) products
\* with ranks 1..min(10, n), none of them scored below a product left
\* unflagged, a lower rank never going with a lower score
PriorityIsTopTen ==
    LET products == db["onboarding_staging_products"]
        staged == StagedOf(db, 1)
        flagged == FlaggedOf(db, 1)
        Score(i) == OrZero(products[i].inferred_importance_score)
        SetTo(ids) ==
          LET after == set_priority_products(db, 1, ids)
                           ["onboarding_staging_products"]
          IN \A i \in staged :
                IF \E k \in 1..Min(10, Len(ids)) : ids[k] = i
                THEN /\ after[i].is_priority
                     /\ ids[after[i].priority_rank] = i
                     /\ after[i].priority_rank <= 10
                ELSE /\ ~after[i].is_priority
                     /\ after[i].priority_rank = NULL
    IN /\ Cardinality(flagged) = Min(10, Cardinality(staged))
       /\ { products[i].priority_rank : i \in flagged }
             = 1..Cardinality(flagged)
       /\ \A i \in staged \ flagged : products[i].priority_rank = NULL
       /\ \A i \in flagged, j \in staged \ flagged : Score(i) >= Score(j)
       /\ \A i \in flagged, j \in flagged :
             products[i].priority_rank < products[j].priority_rank
                => Score(i) >= Score(j)
       /\ SetTo(Ascending(staged))
       /\ SetTo(<< >>)
       /\ SetTo(SubSeq(Ascending(staged), 2, 3))

\* the analysis has just run again on twelve or more products: ten are
\* flagged, and a product left unflagged has the score of a flagged one
TenFlaggedWithTieAtTheCut ==
    /\ last.op = "run_analysis"
    /\ Cardinality(StagedOf(db, 1)) >= 12
    /\ Cardinality(FlaggedOf(db, 1)) = 10
    /\ \E i \in FlaggedOf(db, 1), j \in StagedOf(db, 1) \ FlaggedOf(db, 1) :
          db["onboarding_staging_products"][i].inferred_importance_score
            = db["onboarding_staging_products"][j].inferred_importance_score

\* C28: a heartbeat job that fires a second time, at the same clock and with
\* no change to the orders, the prices or the queue in between, sends no
\* further notification and leaves the stored data as they are.
HeartbeatJobsAreIdempotent ==
    [][ (/\ last.op # "none"
         /\ last'.op = last.op
         /\ last'.now = last.now)
        => (last'.sent = << >> /\ db' = db) ]_vars

\* C29: the importance score analysis stores on a staged product lies
\* between 0 and 1 (0 and 100 hundredths), whatever the staged prices and
\* quantities are.
StoredImportanceWithinUnit ==
    \A i \in DOMAIN db["onboarding_staging_products"] :
        LET score == db["onboarding_staging_products"][i].inferred_importance_score
        IN score # NoScore => (0 <= score /\ score <= 100)

\* analysis has scored a product that holds more than a fifth of the spend,
\* where the caps of the score act, next to one that holds less than that
ScoredAtTheCapsAndBelow ==
    /\ last.op = "run_analysis"
    /\ \E i, j \in DOMAIN db["onboarding_staging_products"] :
          LET products == db["onboarding_staging_products"]
          IN /\ products[i].session_id = products[j].session_id
             /\ products[i].spend_share_percentage > 2000
             /\ products[i].inferred_importance_score = 73
             /\ products[j].spend_share_percentage < 2000
             /\ products[j].inferred_importance_score = 53

\* C30: when analysis has run on the two-invoice scenario (one supplier;
\* Picanha, 10 at R$43, and Arroz, 5 at R$29, one price record each), it
\* reports a total spend of 575 and stores a higher importance score on
\* Picanha than on Arroz.
PicanhaOutscoresArroz ==
    LET products == db["onboarding_staging_products"]
        P == ProductsOfSession(db, 1)
        Staged(name, spend) ==
            { i \in P : /\ products[i].product_name = name
                        /\ products[i].total_spend = spend
                        /\ products[i].purchase_frequency = 1 }
        Score(name, spend) ==
            products[FirstOf(Staged(name, spend))].inferred_importance_score
    IN (/\ last.op = "run_analysis"
        /\ last.analysis # << >>
        /\ Cardinality(P) = 2
        /\ Len(get_staged_suppliers(db, 1)) = 1
        /\ Staged("Picanha", 430) # {}
        /\ Staged("Arroz", 145) # {})
       => /\ last.analysis[1].total_spend = 575
          /\ Score("Picanha", 430) > Score("Arroz", 145)

StagedSupplierMatchFollowsTaxThenName ==
    [][ last'.op = "stage_supplier"
        => LET staged == db'["onboarding_staging_suppliers"]
               row == staged[Len(staged)]
               suppliers == db["suppliers"]
               sameTax == { i \in DOMAIN suppliers :
                              /\ row.cnpj # ""
                              /\ suppliers[i].tax_number = row.cnpj }
               sameName == { i \in DOMAIN suppliers :
                               ILikeContains(suppliers[i].company_name,
                                             row.company_name) }
           IN /\ Len(staged) = Len(db["onboarding_staging_suppliers"]) + 1
              /\ sameTax # {}
                    => /\ row.matched_supplier_id \in sameTax
                       /\ row.match_confidence = 100
              /\ (sameTax = {} /\ sameName # {})
                    => /\ row.matched_supplier_id \in sameName
                       /\ row.match_confidence = 85
              /\ (sameTax = {} /\ sameName = {})
                    => /\ row.matched_supplier_id = NULL
                       /\ row.match_confidence = NULL ]_vars

\* three suppliers have been staged in one session: one matched by its tax
\* id to a production supplier of another name while its own name matches
\* a different one, one matched by name only, and one not matched at all
StagedByTaxByNameAndUnmatched ==
    LET staged == db["onboarding_staging_suppliers"]
        suppliers == db["suppliers"]
    IN \E i \in DOMAIN staged, j \in DOMAIN staged, u \in DOMAIN staged :
          /\ staged[i].match_confidence = 100
          /\ suppliers[staged[i].matched_supplier_id].company_name
                # staged[i].company_name
          /\ \E k \in DOMAIN suppliers :
                /\ k # staged[i].matched_supplier_id
                /\ ILikeContains(suppliers[k].company_name,
                                 staged[i].company_name)
          /\ staged[j].match_confidence = 85
          /\ staged[u].matched_supplier_id = NULL

\* C33: reject_order turns an order to rejected only when the order belongs
\* to the calling supplier and is still awaiting confirmation; when the
\* order it is called for is already confirmed, rejected or delivered, the
\* call reports failure and leaves the order as it was.
RejectOnlyOrdersAwaitingConfirmation ==
    [][ last'.op = "reject_order"
        => LET orders == db["purchase_orders"]
               call == last'.analysis[1]
           IN \A i \in DOMAIN orders :
                 /\ (/\ db'["purchase_orders"][i].order_status = "rejected"
                     /\ orders[i].order_status # "rejected")
                       => /\ orders[i].supplier_id = last'.chat
                          /\ orders[i].order_status \in AwaitingConfirmation
                 /\ (/\ orders[i].order_id = call.order_id
                     /\ orders[i].order_status \notin AwaitingConfirmation)
                       => /\ db'["purchase_orders"][i] = orders[i]
                          /\ ~call.success ]_vars

\* C34: when the chat has a staging session, save_products_manually stages
\* one product per name of the list, returns status success with that count
\* and leaves the session in phase products_collected.
ManualProductsAreStaged ==
    [][ \A chat \in Chats :
          (/\ last'.op = "save_products_manually"
           /\ last'.chat = chat
           /\ sessions'[chat] # NULL
           /\ heap'[sessions'[chat]].onboarding_context.staging_session_id
                 # NULL)
          => LET context == heap'[sessions'[chat]].onboarding_context
                 session_id == context.staging_session_id
                 products == context.products_list
                 Named(d, name) ==
                     { i \in ProductsOfSession(d, session_id) :
                         d["onboarding_staging_products"][i].product_name
                             = name }
             IN /\ Cardinality(ProductsOfSession(db', session_id))
                      = Cardinality(ProductsOfSession(db, session_id))
                          + Len(products)
                /\ \A k \in DOMAIN products :
                      Cardinality(Named(db', products[k]))
                          > Cardinality(Named(db, products[k]))
                /\ last'.analysis
                      = << [status |-> "success",
                            product_count |-> Len(products)] >>
                /\ db'["onboarding_sessions"][session_id].current_phase
                      = "products_collected" ]_vars

\* C35: an invoice photo is parsed and staged at most once per session: when
\* process_invoice_photos runs and every uploaded photo already has its photo
\* row in the session, the call stages no product and no price again.
ProcessedPhotosAreStagedOnce ==
    [][ \A chat \in Chats :
          (/\ last'.op = "process_invoice_photos"
           /\ last'.chat = chat
           /\ sessions[chat] # NULL
           /\ sessions'[chat] = sessions[chat]
           /\ heap[sessions[chat]].onboarding_context.staging_session_id
                 # NULL)
          => LET context == heap[sessions[chat]].onboarding_context
                 session_id == context.staging_session_id
                 photos == context.uploaded_photos
                 Processed(url) ==
                     \E i \in DOMAIN db["onboarding_invoice_photos"] :
                        LET row == db["onboarding_invoice_photos"][i]
                        IN /\ row.session_id = session_id
                           /\ row.telegram_file_url = url
                 PricesOfSession(d) ==
                     SelectEq(d, "onboarding_staging_prices", "session_id",
                              session_id)
             IN (/\ photos # << >>
                 /\ \A k \in DOMAIN photos : Processed(photos[k]))
                => /\ ProductsOfSession(db', session_id)
                       = ProductsOfSession(db, session_id)
                   /\ PricesOfSession(db') = PricesOfSession(db) ]_vars

\* the messages a chat's agent has stored
StoredMessages(chat) ==
    IF heap[sessions[chat]].needs_onboarding
    THEN heap[sessions[chat]].onboarding_context.messages
    ELSE heap[sessions[chat]].restaurant_context.messages

\* C36: after every process_message call, the error reply included, every
\* stored assistant message with tool calls is followed at once by exactly
\* one tool message for each of its tool-call ids, before any other message.
StoredConversationIsWellFormed ==
    \A chat \in Chats :
       LET messages == StoredMessages(chat)
       IN \A i \in DOMAIN messages :
             LET ids == messages[i].tool_calls
             IN \A k \in DOMAIN ids :
                   /\ i + k <= Len(messages)
                   /\ messages[i + k].role = "tool"
                   /\ \E j \in 1..Len(ids) :
                         /\ i + j <= Len(messages)
                         /\ messages[i + j].tool_call_id = ids[k]
                         /\ \A h \in 1..Len(ids) :
                               (i + h <= Len(messages)
                                  /\ messages[i + h].tool_call_id = ids[k])
                               => h = j

\* C37: once onboarding has completed in a chat with a committed restaurant,
\* a message of that chat routed to the main restaurant agent carries the
\* committed restaurant id in its conversation context.
RestaurantChatCarriesCommittedId ==
    \A chat \in Chats :
       (/\ last.op = "restaurant_chat"
        /\ last.chat = chat
        /\ sessions[chat] # NULL
        /\ heap[sessions[chat]].onboarding_context.onboarding_complete
        /\ heap[sessions[chat]].onboarding_context.restaurant_id # NULL)
       => heap[sessions[chat]].restaurant_context.restaurant_id
            = heap[sessions[chat]].onboarding_context.restaurant_id

\* the engagement counters of a profile row
EngagementCounters(p) ==
    << p.drip_questions_answered, p.drip_questions_skipped,
       p.total_corrections, p.corrections_with_reason, p.sessions_last_30d >>

\* C38: after every operation that changes an engagement counter (a drip
\* answer, a drip skip, a saved correction, a session-count increment) the
\* profile's stored score is one the engagement formula gives its stored
\* counters, and its level and drip budget are those of that score.
StoredEngagementFollowsCounters ==
    [][ \A i \in DOMAIN db["engagement_profile"] :
          (/\ last'.op \in { "answer_drip_question",
                              "save_preference_correction",
                              "increment_session_count" }
           /\ i \in DOMAIN db'["engagement_profile"]
           /\ EngagementCounters(db'["engagement_profile"][i])
                 # EngagementCounters(db["engagement_profile"][i]))
          => LET p == db'["engagement_profile"][i]
             IN /\ p.engagement_score \in EngagementScores(p)
                /\ p.engagement_level = EngagementLevel(p.engagement_score)
                /\ p.drip_questions_per_session
                      = DripPerSession(p.engagement_score) ]_vars

QueueRows == 1..3

\* the engagement level stored for restaurant 1
StoredLevel ==
    IF FindProfile(db, 1) = NULL THEN "none"
    ELSE db["engagement_profile"][FindProfile(db, 1)].engagement_level

\* queue row i exists and has the given tier
QueuedInTier(i, tier) ==
    /\ i \in DOMAIN db["preference_collection_queue"]
    /\ db["preference_collection_queue"][i].importance_tier = tier

\* queue row i is marked collected
Collected(i) ==
    /\ i \in DOMAIN db["preference_collection_queue"]
    /\ db["preference_collection_queue"][i].preference_status = "collected"

====
